---- MODULE Spec2Model ----
(***************************************************************************)
(* Synchronization and temporal-trigger engine of the personal-utility     *)
(* backend: the record store (tables todos, expenses, events), the request *)
(* handlers that write it, the per-table sync routes and the reminder      *)
(* scanner.  Time is counted in units of 1/Minute of a minute.             *)
(***************************************************************************)
EXTENDS Integers, Sequences, FiniteSets, Bags, TLC

\* ---------------------------------------------------------------- bounds
MaxId == 2          \* rows ever inserted (SERIAL ids 1..MaxId)
MaxVersion == 5     \* cap of the version column of expenses in the guards
MaxBatch == 1       \* mutations carried by one sync call
MaxClock == 7       \* last instant the server clock reaches
Minute == 2         \* clock units per minute

\* ------------------------------------------------------- program constants
Interval == Minute          \* setInterval(scanReminders, 60000); INTERVAL '1 minute'
Day == 1440 * Minute        \* INTERVAL '1 day'
Week == 7 * Day             \* INTERVAL '1 week'
Month == 30 * Day           \* INTERVAL '1 month' (a 30-day month)
Year == 365 * Day           \* INTERVAL '1 year'
Epoch == 0                  \* lastSyncTime || '1970-01-01'
NullTime == 0 - 1           \* SQL NULL in a TIMESTAMP column
NoId == 0                   \* a mutation without id (falsy in `if (todo.id)`)
FirstId == 1                \* first value of a SERIAL id
NoCid == "none"             \* SQL NULL in client_id

Users == {1, 2}
Owner == {1}               \* the account of the single-owner specifications
ClientIds == {"k1"}
Scanners == {1, 2}          \* server processes running scanReminders of part_002
ServerJs == 3               \* a server process running scanReminders of server.js
Calls == {1, 2}             \* pool connections serving /sync calls
Patterns == {"none", "daily", "weekly", "monthly", "yearly"}

VARIABLES
    rows,       \* committed rows of todos, expenses and events: id -> row
    nextId,     \* next value of the SERIAL id sequence
    clock,      \* the store's NOW() / CURRENT_TIMESTAMP
    resp,       \* the last HTTP response sent (with the request it answers)
    emitted,    \* bag of the notifications published through io.emit
    lastFire,   \* per scanner process: clock of its last timer firing
    router,     \* the route file mounted for the table the behaviour follows
    scan,       \* per scanner process: the runs of scanReminders in flight
    call,       \* per connection: the /sync call in flight and its transaction
    device,     \* a client device: the watermark it holds and the rows it was sent
    otpStore,   \* emailService's Map: email -> the code stored for it and its expiry
    users,      \* emails of the rows of table users
    inbox,      \* per email: the code of the last OTP mail delivered
    boot        \* the server process: where startServer is and what it registered

vars == <<rows, nextId, clock, resp, emitted, lastFire, router, scan, call, device,
          otpStore, users, inbox, boot>>

\* The state of registration and of the start of the process, which the record
\* routes and the scanner leave alone.
auth == <<otpStore, users, inbox, boot>>

\* ------------------------------------------------------------ request data
\* The client-supplied columns of a row.
Payload(t, c, rt, dd, ed, rec, pat) ==
    [title |-> t, is_completed |-> c, reminder_time |-> rt, due_date |-> dd,
     event_date |-> ed, is_recurring |-> rec, recurrence_pattern |-> pat]

TodoPayloads ==
    { Payload("a", FALSE, NullTime, NullTime, NullTime, FALSE, "none"),
      Payload("b", FALSE, Minute, NullTime, NullTime, FALSE, "none") }

ExpensePayloads ==
    { Payload("a", FALSE, NullTime, NullTime, NullTime, FALSE, "none"),
      Payload("b", FALSE, NullTime, NullTime, NullTime, FALSE, "none") }

EventPayloads ==
    { Payload("a", FALSE, NullTime, NullTime, Minute, TRUE, "weekly"),
      Payload("b", FALSE, NullTime, NullTime, Minute, FALSE, "none") }

PayloadsOf(tbl) ==
    CASE tbl = "todos" -> TodoPayloads
      [] tbl = "expenses" -> ExpensePayloads
      [] OTHER -> EventPayloads

\* Cap of the version column per table: the expenses scenarios start from
\* revision 3, the other tables need fewer revisions.
VersionCap(tbl) == IF tbl = "expenses" THEN MaxVersion ELSE MaxVersion - 2

\* One entry of the todos / expenses / events array of a sync request.
Mutations(tbl) ==
    [id : {NoId}, client_id : ClientIds \cup {NoCid}, version : {0}, p : PayloadsOf(tbl)]
    \cup
    [id : 1..MaxId, client_id : {NoCid}, version : 0..(VersionCap(tbl) - 1), p : PayloadsOf(tbl)]

RECURSIVE SeqsUpTo(_, _)
SeqsUpTo(S, n) ==
    IF n = 0 THEN { <<>> }
    ELSE LET shorter == SeqsUpTo(S, n - 1)
         IN  shorter \cup { Append(q, x) : q \in { s \in shorter : Len(s) = n - 1 }, x \in S }

Batches(tbl) == SeqsUpTo(Mutations(tbl), MaxBatch) \ { <<>> }

\* ------------------------------------------------------------------- rows
\* INSERT with the column defaults of schema.sql (version 1, is_deleted false,
\* updated_at CURRENT_TIMESTAMP); lsa is the last_synced_at the statement gives.
NewRow(tbl, u, cid, p, lsa) ==
    [tbl |-> tbl, user_id |-> u, client_id |-> cid, version |-> 1,
     is_deleted |-> FALSE, last_synced_at |-> lsa, updated_at |-> clock,
     title |-> p.title, is_completed |-> p.is_completed,
     reminder_time |-> p.reminder_time, due_date |-> p.due_date,
     event_date |-> p.event_date, is_recurring |-> p.is_recurring,
     recurrence_pattern |-> p.recurrence_pattern]

\* BEFORE UPDATE trigger update_updated_at_column of every table.
Touch(r) == [r EXCEPT !.updated_at = clock]

\* WHERE id = $id on table tbl, whoever the row belongs to.
OwnsAny(rs, tbl, u, id) ==
    /\ id \in DOMAIN rs
    /\ rs[id].tbl = tbl

\* WHERE id = $id AND user_id = $u on table tbl.
Owns(rs, tbl, u, id) ==
    /\ id \in DOMAIN rs
    /\ rs[id].tbl = tbl
    /\ rs[id].user_id = u

Put(rs, id, r) == [rs EXCEPT ![id] = Touch(r)]

Insert(rs, id, r) == [i \in DOMAIN rs \cup {id} |-> IF i = id THEN r ELSE rs[i]]

Remove(rs, id) == [i \in DOMAIN rs \ {id} |-> rs[i]]

\* What a handler sends with res.json: the status, the row(s) it returns and, for
\* a sync route, the request it answers (lastSyncTime, mutations) and syncTime.
Response(op, u, id, status, data) ==
    [op |-> op, user |-> u, id |-> id, status |-> status,
     since |-> NullTime, req |-> <<>>, synced |-> data, conflicts |-> <<>>,
     serverChanges |-> {}, syncTime |-> NullTime]

SyncResponse(op, u, w, ms, synced, conflicts, changes) ==
    [op |-> op, user |-> u, id |-> NoId, status |-> 200,
     since |-> w, req |-> ms, synced |-> synced, conflicts |-> conflicts,
     serverChanges |-> changes, syncTime |-> clock]

NoResponse == Response("none", 0, NoId, 0, <<>>)

\* lastSyncTime values a client may send: none, or an earlier syncTime.
Watermarks == {NullTime} \cup (Epoch..clock)

\* lastSyncTime || '1970-01-01'
Since(w) == IF w = NullTime THEN Epoch ELSE w

\* State threaded through the mutation loop of a sync route.
SyncState(rs, nid) == [rows |-> rs, nextId |-> nid, synced |-> <<>>, conflicts |-> <<>>]

\* SELECT * FROM <tbl> WHERE user_id = $1 AND last_synced_at > $2
ChangedSince(rs, tbl, u, w) ==
    { [id |-> i, row |-> rs[i]] :
        i \in { j \in DOMAIN rs : /\ rs[j].tbl = tbl
                                  /\ rs[j].user_id = u
                                  /\ rs[j].last_synced_at > Since(w) } }

\* The store can hold the outcome of a sync loop within the bounds.
Fits(st) ==
    /\ st.nextId <= MaxId + 1
    /\ \A i \in DOMAIN st.rows : st.rows[i].version <= VersionCap(st.rows[i].tbl)

Returned(id, r) == [id |-> id, row |-> r]

\* A scanner process between two runs, a connection between two calls.
IdleScan == {}

IdleCall == [pc |-> "idle", user |-> 0, req |-> <<>>, rest |-> <<>>,
             changes |-> {}, seen |-> 0, pending |-> << >>, synced |-> <<>>,
             conflicts |-> <<>>, overlapped |-> FALSE]

\* A device that has not synced yet: no lastSyncTime, no row received.
NewDevice == [watermark |-> NullTime, got |-> << >>]

\* app.use('/api/<table>', <router>): the handlers of a route file exist when
\* that file is the one mounted.
Mounted(file) == router = file

\* --------------------------------------------------- todos (routes/todos.js)
\* POST /api/todos
TodosPost(u, p) ==
    /\ Mounted("todos.js")
    /\ nextId <= MaxId
    /\ rows' = Insert(rows, nextId,
                  [NewRow("todos", u, NoCid, p, NullTime) EXCEPT !.is_completed = FALSE])
    /\ nextId' = nextId + 1
    /\ resp' = Response("TodosPost", u, nextId, 200, <<Returned(nextId, rows'[nextId])>>)
    /\ UNCHANGED <<clock, emitted, lastFire, router, scan, call, device, auth>>

\* PUT /api/todos/:id
TodosPut(u, id, p) ==
    /\ Mounted("todos.js")
    /\ IF Owns(rows, "todos", u, id)
       THEN /\ rows' = Put(rows, id,
                   [rows[id] EXCEPT !.title = p.title, !.is_completed = p.is_completed,
                                    !.due_date = p.due_date,
                                    !.reminder_time = p.reminder_time])
            /\ resp' = Response("TodosPut", u, id, 200, <<Returned(id, rows'[id])>>)
       ELSE /\ rows' = rows
            /\ resp' = Response("TodosPut", u, id, 404, <<>>)
    /\ UNCHANGED <<nextId, clock, emitted, lastFire, router, scan, call, device, auth>>

\* DELETE /api/todos/:id
TodosDelete(u, id) ==
    /\ Mounted("todos.js")
    /\ IF Owns(rows, "todos", u, id)
       THEN /\ rows' = Put(rows, id, [rows[id] EXCEPT !.is_deleted = TRUE])
            /\ resp' = Response("TodosDelete", u, id, 200, <<>>)
       ELSE /\ rows' = rows
            /\ resp' = Response("TodosDelete", u, id, 404, <<>>)
    /\ UNCHANGED <<nextId, clock, emitted, lastFire, router, scan, call, device, auth>>

\* ------------------------------------- todos, the router with version and sync
\* POST /api/todos
TodosPostV(u, cid, p) ==
    /\ Mounted("todos.sync")
    /\ nextId <= MaxId
    /\ rows' = Insert(rows, nextId,
                  [NewRow("todos", u, cid, p, clock) EXCEPT !.is_completed = FALSE])
    /\ nextId' = nextId + 1
    /\ resp' = Response("TodosPostV", u, nextId, 201, <<Returned(nextId, rows'[nextId])>>)
    /\ UNCHANGED <<clock, emitted, lastFire, router, scan, call, device, auth>>

\* PUT /api/todos/:id
TodosPutV(u, id, p) ==
    /\ Mounted("todos.sync")
    /\ IF Owns(rows, "todos", u, id) /\ ~rows[id].is_deleted
       THEN /\ rows[id].version < VersionCap(rows[id].tbl)
            /\ rows' = Put(rows, id,
                   [rows[id] EXCEPT !.title = p.title, !.is_completed = p.is_completed,
                                    !.due_date = p.due_date,
                                    !.reminder_time = p.reminder_time,
                                    !.version = @ + 1, !.last_synced_at = clock])
            /\ resp' = Response("TodosPutV", u, id, 200, <<Returned(id, rows'[id])>>)
       ELSE /\ rows' = rows
            /\ resp' = Response("TodosPutV", u, id, 404, <<>>)
    /\ UNCHANGED <<nextId, clock, emitted, lastFire, router, scan, call, device, auth>>

\* PATCH /api/todos/:id/toggle
TodosToggle(u, id) ==
    /\ Mounted("todos.sync")
    /\ IF Owns(rows, "todos", u, id) /\ ~rows[id].is_deleted
       THEN /\ rows[id].version < VersionCap(rows[id].tbl)
            /\ rows' = Put(rows, id,
                   [rows[id] EXCEPT !.is_completed = ~@,
                                    !.version = @ + 1, !.last_synced_at = clock])
            /\ resp' = Response("TodosToggle", u, id, 200, <<Returned(id, rows'[id])>>)
       ELSE /\ rows' = rows
            /\ resp' = Response("TodosToggle", u, id, 404, <<>>)
    /\ UNCHANGED <<nextId, clock, emitted, lastFire, router, scan, call, device, auth>>

\* The soft delete shared by the versioned routers:
\* SET is_deleted = true, version = version + 1, last_synced_at = CURRENT_TIMESTAMP
Tombstone(r) == [r EXCEPT !.is_deleted = TRUE, !.version = @ + 1, !.last_synced_at = clock]

\* DELETE /api/todos/:id (?permanent=true removes the row)
TodosDeleteV(u, id, permanent) ==
    /\ Mounted("todos.sync")
    /\ IF Owns(rows, "todos", u, id)
       THEN /\ permanent \/ rows[id].version < VersionCap(rows[id].tbl)
            /\ rows' = IF permanent THEN Remove(rows, id)
                       ELSE Put(rows, id, Tombstone(rows[id]))
            /\ resp' = Response("TodosDeleteV", u, id, 200, <<>>)
       ELSE /\ rows' = rows
            /\ resp' = Response("TodosDeleteV", u, id, 404, <<>>)
    /\ UNCHANGED <<nextId, clock, emitted, lastFire, router, scan, call, device, auth>>

\* The UPDATE of the todos sync route: version = todo.version + 1.
TodosSyncUpdate(r, m) ==
    [r EXCEPT !.title = m.p.title, !.is_completed = m.p.is_completed,
              !.due_date = m.p.due_date, !.reminder_time = m.p.reminder_time,
              !.version = m.version + 1, !.last_synced_at = clock]

\* A comparison that never finds the server version newer.
TodosConflictNever(serverVersion, m) == FALSE

\* existing.rows[0].version > todo.version: the server version is newer.
TodosConflict(serverVersion, m) == serverVersion > m.version

\* The body of `for (const todo of todos)` for one todo.
TodosSyncOne(st, u, m) ==
    IF m.id # NoId
    THEN IF Owns(st.rows, "todos", u, m.id)
         THEN IF TodosConflict(st.rows[m.id].version, m)
              THEN [st EXCEPT !.conflicts =
                       Append(@, [client |-> m, serverVersion |-> st.rows[m.id].version])]
              ELSE LET r == Touch(TodosSyncUpdate(st.rows[m.id], m))
                   IN  [st EXCEPT !.rows = [@ EXCEPT ![m.id] = r],
                                  !.synced = Append(@, Returned(m.id, r))]
         ELSE st
    ELSE LET r == NewRow("todos", u, m.client_id, m.p, clock)
         IN  [st EXCEPT !.rows = Insert(@, st.nextId, r),
                        !.nextId = @ + 1,
                        !.synced = Append(@, Returned(st.nextId, r))]

RECURSIVE TodosSyncLoop(_, _, _)
TodosSyncLoop(st, u, ms) ==
    IF ms = <<>> THEN st
    ELSE TodosSyncLoop(TodosSyncOne(st, u, Head(ms)), u, Tail(ms))

\* POST /api/todos/sync
TodosSync(u, w, ms) ==
    LET changes == ChangedSince(rows, "todos", u, w)
        st == TodosSyncLoop(SyncState(rows, nextId), u, ms)
    IN  /\ Mounted("todos.sync")
        /\ Fits(st)
        /\ rows' = st.rows
        /\ nextId' = st.nextId
        /\ resp' = SyncResponse("TodosSync", u, w, ms, st.synced, st.conflicts, changes)
        /\ UNCHANGED <<clock, emitted, lastFire, router, scan, call, device, auth>>

\* ------------------------------------------------ events (routes/events.js)
\* POST /api/events
EventsPost(u, cid, p) ==
    /\ Mounted("events.js")
    /\ nextId <= MaxId
    /\ rows' = Insert(rows, nextId, NewRow("events", u, cid, p, clock))
    /\ nextId' = nextId + 1
    /\ resp' = Response("EventsPost", u, nextId, 201, <<Returned(nextId, rows'[nextId])>>)
    /\ UNCHANGED <<clock, emitted, lastFire, router, scan, call, device, auth>>

\* An events UPDATE that writes every column from the payload of a client that
\* still holds the row as live.
EventsUpdateResurrect(r, p) ==
    [r EXCEPT !.title = p.title, !.event_date = p.event_date,
              !.is_recurring = p.is_recurring,
              !.recurrence_pattern = p.recurrence_pattern,
              !.is_deleted = FALSE,
              !.version = @ + 1, !.last_synced_at = clock]

\* The SET list of the events UPDATE, shared by PUT /:id and the sync route.
EventsUpdate(r, p) ==
    [r EXCEPT !.title = p.title, !.event_date = p.event_date,
              !.is_recurring = p.is_recurring,
              !.recurrence_pattern = p.recurrence_pattern,
              !.version = @ + 1, !.last_synced_at = clock]

\* PUT /api/events/:id
EventsPut(u, id, p) ==
    /\ Mounted("events.js")
    /\ IF Owns(rows, "events", u, id) /\ ~rows[id].is_deleted
       THEN /\ rows[id].version < VersionCap(rows[id].tbl)
            /\ rows' = Put(rows, id, EventsUpdate(rows[id], p))
            /\ resp' = Response("EventsPut", u, id, 200, <<Returned(id, rows'[id])>>)
       ELSE /\ rows' = rows
            /\ resp' = Response("EventsPut", u, id, 404, <<>>)
    /\ UNCHANGED <<nextId, clock, emitted, lastFire, router, scan, call, device, auth>>

\* DELETE /api/events/:id (?permanent=true removes the row)
EventsDelete(u, id, permanent) ==
    /\ Mounted("events.js")
    /\ IF Owns(rows, "events", u, id)
       THEN /\ permanent \/ rows[id].version < VersionCap(rows[id].tbl)
            /\ rows' = IF permanent THEN Remove(rows, id)
                       ELSE Put(rows, id, Tombstone(rows[id]))
            /\ resp' = Response("EventsDelete", u, id, 200, <<>>)
       ELSE /\ rows' = rows
            /\ resp' = Response("EventsDelete", u, id, 404, <<>>)
    /\ UNCHANGED <<nextId, clock, emitted, lastFire, router, scan, call, device, auth>>

\* The body of `for (const event of events)` for one event.
EventsSyncOne(st, u, m) ==
    IF m.id # NoId
    THEN IF Owns(st.rows, "events", u, m.id)
         THEN LET r == Touch(EventsUpdate(st.rows[m.id], m.p))
              IN  [st EXCEPT !.rows = [@ EXCEPT ![m.id] = r],
                             !.synced = Append(@, Returned(m.id, r))]
         ELSE st
    ELSE LET r == NewRow("events", u, m.client_id, m.p, clock)
         IN  [st EXCEPT !.rows = Insert(@, st.nextId, r),
                        !.nextId = @ + 1,
                        !.synced = Append(@, Returned(st.nextId, r))]

RECURSIVE EventsSyncLoop(_, _, _)
EventsSyncLoop(st, u, ms) ==
    IF ms = <<>> THEN st
    ELSE EventsSyncLoop(EventsSyncOne(st, u, Head(ms)), u, Tail(ms))

\* POST /api/events/sync
EventsSync(u, w, ms) ==
    LET changes == ChangedSince(rows, "events", u, w)
        st == EventsSyncLoop(SyncState(rows, nextId), u, ms)
    IN  /\ Mounted("events.js")
        /\ Fits(st)
        /\ rows' = st.rows
        /\ nextId' = st.nextId
        /\ resp' = SyncResponse("EventsSync", u, w, ms, st.synced, st.conflicts, changes)
        /\ UNCHANGED <<clock, emitted, lastFire, router, scan, call, device, auth>>

\* -------------------------------------------- expenses (routes/expenses.js)
\* POST /api/expenses
ExpensesPost(u, cid, p) ==
    /\ Mounted("expenses.js")
    /\ nextId <= MaxId
    /\ rows' = Insert(rows, nextId, NewRow("expenses", u, cid, p, clock))
    /\ nextId' = nextId + 1
    /\ resp' = Response("ExpensesPost", u, nextId, 201, <<Returned(nextId, rows'[nextId])>>)
    /\ UNCHANGED <<clock, emitted, lastFire, router, scan, call, device, auth>>

\* The SET list of the expenses UPDATE, shared by PUT /:id and the sync route.
ExpensesUpdate(r, p) ==
    [r EXCEPT !.title = p.title, !.version = @ + 1, !.last_synced_at = clock]

\* PUT /api/expenses/:id
ExpensesPut(u, id, p) ==
    /\ Mounted("expenses.js")
    /\ IF Owns(rows, "expenses", u, id) /\ ~rows[id].is_deleted
       THEN /\ rows[id].version < VersionCap(rows[id].tbl)
            /\ rows' = Put(rows, id, ExpensesUpdate(rows[id], p))
            /\ resp' = Response("ExpensesPut", u, id, 200, <<Returned(id, rows'[id])>>)
       ELSE /\ rows' = rows
            /\ resp' = Response("ExpensesPut", u, id, 404, <<>>)
    /\ UNCHANGED <<nextId, clock, emitted, lastFire, router, scan, call, device, auth>>

\* DELETE /api/expenses/:id (?permanent=true removes the row)
ExpensesDelete(u, id, permanent) ==
    /\ Mounted("expenses.js")
    /\ IF Owns(rows, "expenses", u, id)
       THEN /\ permanent \/ rows[id].version < VersionCap(rows[id].tbl)
            /\ rows' = IF permanent THEN Remove(rows, id)
                       ELSE Put(rows, id, Tombstone(rows[id]))
            /\ resp' = Response("ExpensesDelete", u, id, 200, <<>>)
       ELSE /\ rows' = rows
            /\ resp' = Response("ExpensesDelete", u, id, 404, <<>>)
    /\ UNCHANGED <<nextId, clock, emitted, lastFire, router, scan, call, device, auth>>

\* The body of `for (const expense of expenses)` for one expense.
ExpensesSyncOne(st, u, m) ==
    IF m.id # NoId
    THEN IF Owns(st.rows, "expenses", u, m.id)
         THEN LET r == Touch(ExpensesUpdate(st.rows[m.id], m.p))
              IN  [st EXCEPT !.rows = [@ EXCEPT ![m.id] = r],
                             !.synced = Append(@, Returned(m.id, r))]
         ELSE st
    ELSE LET r == NewRow("expenses", u, m.client_id, m.p, clock)
         IN  [st EXCEPT !.rows = Insert(@, st.nextId, r),
                        !.nextId = @ + 1,
                        !.synced = Append(@, Returned(st.nextId, r))]

RECURSIVE ExpensesSyncLoop(_, _, _)
ExpensesSyncLoop(st, u, ms) ==
    IF ms = <<>> THEN st
    ELSE ExpensesSyncLoop(ExpensesSyncOne(st, u, Head(ms)), u, Tail(ms))

\* POST /api/expenses/sync
ExpensesSync(u, w, ms) ==
    LET changes == ChangedSince(rows, "expenses", u, w)
        st == ExpensesSyncLoop(SyncState(rows, nextId), u, ms)
    IN  /\ Mounted("expenses.js")
        /\ Fits(st)
        /\ rows' = st.rows
        /\ nextId' = st.nextId
        /\ resp' = SyncResponse("ExpensesSync", u, w, ms, st.synced, st.conflicts, changes)
        /\ UNCHANGED <<clock, emitted, lastFire, router, scan, call, device, auth>>

\* ------------------------------------------------ the reminder scanner
\* reminder_time <= NOW() AND reminder_time > NOW() - INTERVAL '1 minute'
InWindow(t, now) == t # NullTime /\ t <= now /\ t > now - Interval

TodoReminderRows(rs, now) ==
    { i \in DOMAIN rs : /\ rs[i].tbl = "todos"
                        /\ InWindow(rs[i].reminder_time, now)
                        /\ ~rs[i].is_completed /\ ~rs[i].is_deleted }

TodoDeadlineRows(rs, now) ==
    { i \in DOMAIN rs : /\ rs[i].tbl = "todos"
                        /\ InWindow(rs[i].due_date, now)
                        /\ ~rs[i].is_completed /\ ~rs[i].is_deleted }

EventRows(rs, now) ==
    { i \in DOMAIN rs : /\ rs[i].tbl = "events"
                        /\ InWindow(rs[i].event_date, now)
                        /\ ~rs[i].is_deleted }

\* The payload of io.emit(kind, {id, time}) and the process that published it.
Notification(kind, id, time, by) == [kind |-> kind, id |-> id, time |-> time, by |-> by]

\* A switch whose monthly and yearly cases fall through to the weekly one.
IntervalOfFallsThrough(pattern) ==
    CASE pattern = "daily" -> Day
      [] pattern \in {"weekly", "monthly", "yearly"} -> Week
      [] OTHER -> 0

\* switch (e.recurrence_pattern): the interval added to event_date, 0 for none.
IntervalOf(pattern) ==
    CASE pattern = "daily" -> Day
      [] pattern = "weekly" -> Week
      [] pattern = "monthly" -> Month
      [] pattern = "yearly" -> Year
      [] OTHER -> 0

\* if (e.is_recurring) ... if (interval): the row is advanced.
Advances(r) == r.is_recurring /\ IntervalOf(r.recurrence_pattern) # 0

\* An advance that leaves event_date where it was.
AdvanceKeepsDate(r, pattern) == [r EXCEPT !.updated_at = clock]

\* UPDATE events SET event_date = event_date + interval, updated_at = NOW()
\* with the interval of the pattern the run selected.
Advance(r, pattern) == [r EXCEPT !.event_date = @ + IntervalOf(pattern),
                                 !.updated_at = clock]

\* What one tick publishes for the rows its three queries return at NOW() = now.
Published(rs, now, s) ==
    { Notification("todo_reminder", i, rs[i].reminder_time, s) : i \in TodoReminderRows(rs, now) }
    \cup { Notification("todo_deadline", i, rs[i].due_date, s) : i \in TodoDeadlineRows(rs, now) }
    \cup { Notification("event_due", i, rs[i].event_date, s) : i \in EventRows(rs, now) }

\* A run that also stamps updated_at on the rows it does not advance.
scanRemindersStampsAll(s) ==
    /\ clock >= lastFire[s] + Interval
    /\ lastFire' = [lastFire EXCEPT ![s] = clock]
    /\ emitted' = emitted (+) SetToBag(Published(rows, clock, s))
    /\ rows' = [i \in DOMAIN rows |->
                   IF i \in EventRows(rows, clock) /\ Advances(rows[i])
                   THEN Advance(rows[i], rows[i].recurrence_pattern) ELSE Touch(rows[i])]
    /\ UNCHANGED <<nextId, clock, resp, router, scan, call, device, auth>>

\* One run of scanReminders in server process s, fired by its setInterval timer.
scanReminders(s) ==
    /\ clock >= lastFire[s] + Interval
    /\ lastFire' = [lastFire EXCEPT ![s] = clock]
    /\ emitted' = emitted (+) SetToBag(Published(rows, clock, s))
    /\ rows' = [i \in DOMAIN rows |->
                   IF i \in EventRows(rows, clock) /\ Advances(rows[i])
                   THEN Advance(rows[i], rows[i].recurrence_pattern) ELSE rows[i]]
    /\ UNCHANGED <<nextId, clock, resp, router, scan, call, device, auth>>

\* server.js: reminder_time >= NOW() AND reminder_time < NOW() + INTERVAL '1 minute'
InWindowAhead(t, now) == t # NullTime /\ t >= now /\ t < now + Interval

\* What one tick of server.js publishes: todo reminders and events, looked up
\* ahead of NOW(); it has no deadline query.
PublishedAhead(rs, now, s) ==
    { Notification("todo_reminder", i, rs[i].reminder_time, s) :
        i \in { j \in DOMAIN rs : /\ rs[j].tbl = "todos"
                                  /\ InWindowAhead(rs[j].reminder_time, now)
                                  /\ ~rs[j].is_completed /\ ~rs[j].is_deleted } }
    \cup { Notification("event_due", i, rs[i].event_date, s) :
            i \in { j \in DOMAIN rs : /\ rs[j].tbl = "events"
                                      /\ InWindowAhead(rs[j].event_date, now)
                                      /\ ~rs[j].is_deleted } }

\* One run of scanReminders of server.js in process s: it writes no row.
scanRemindersJs(s) ==
    /\ clock >= lastFire[s] + Interval
    /\ lastFire' = [lastFire EXCEPT ![s] = clock]
    /\ emitted' = emitted (+) SetToBag(PublishedAhead(rows, clock, s))
    /\ UNCHANGED <<rows, nextId, clock, resp, router, scan, call, device, auth>>

\* The store's clock advances.
Tick ==
    /\ clock < MaxClock
    /\ clock' = clock + 1
    /\ UNCHANGED <<rows, nextId, resp, emitted, lastFire, router, scan, call, device, auth>>

\* ------------------------------------------------------------- startServer
\* const startServer = async (retries = 5)
Retries == 5

\* A process whose startServer connected at its first attempt and returned.
Started == boot = [pc |-> "listening", attempt |-> 1, initialised |-> 1, timers |-> 1]

\* A round that registers the timer before it tries the connection.
startServerTimerFirst(ok) ==
    /\ boot.pc = "connecting"
    /\ boot' = IF ok
               THEN [boot EXCEPT !.pc = "listening", !.initialised = @ + 1, !.timers = @ + 1]
               ELSE IF boot.attempt = Retries
               THEN [boot EXCEPT !.pc = "exited", !.timers = @ + 1]
               ELSE [boot EXCEPT !.attempt = @ + 1, !.timers = @ + 1]
    /\ UNCHANGED <<rows, nextId, clock, resp, emitted, lastFire, router, scan, call, device,
                   otpStore, users, inbox>>

\* One round of `for (let attempt = 1; attempt <= retries; attempt++)`: when
\* pool.query('SELECT 1') succeeds (ok), initializeDatabase, setInterval and
\* server.listen run and startServer returns; when it throws, the catch exits
\* the process at the last attempt and otherwise waits and goes round again.
startServer(ok) ==
    /\ boot.pc = "connecting"
    /\ boot' = IF ok
               THEN [boot EXCEPT !.pc = "listening", !.initialised = @ + 1, !.timers = @ + 1]
               ELSE IF boot.attempt = Retries
               THEN [boot EXCEPT !.pc = "exited"]
               ELSE [boot EXCEPT !.attempt = @ + 1]
    /\ UNCHANGED <<rows, nextId, clock, resp, emitted, lastFire, router, scan, call, device,
                   otpStore, users, inbox>>

\* ------------------------------------------------------------ specification
Routers == {"todos.js", "todos.sync", "events.js", "expenses.js"}

Init ==
    /\ rows = << >>
    /\ nextId = 1
    /\ clock = Interval
    /\ resp = NoResponse
    /\ emitted = EmptyBag
    /\ lastFire = [s \in Scanners \cup {ServerJs} |-> 0]
    /\ router \in Routers
    /\ scan = [s \in Scanners |-> IdleScan]
    /\ call = [c \in Calls |-> IdleCall]
    /\ device = NewDevice
    /\ otpStore = << >>
    /\ users = {}
    /\ inbox = << >>
    /\ Started

\* The handlers of the mounted router; the scanner of one server process runs
\* beside the events router, whose rows are the ones it writes.
Next ==
    \/ \E u \in Owner, p \in TodoPayloads : TodosPost(u, p)
    \/ \E u \in Owner, id \in 1..MaxId, p \in TodoPayloads : TodosPut(u, id, p)
    \/ \E u \in Owner, id \in 1..MaxId : TodosDelete(u, id)
    \/ \E u \in Owner, cid \in ClientIds \cup {NoCid}, p \in TodoPayloads : TodosPostV(u, cid, p)
    \/ \E u \in Owner, id \in 1..MaxId, p \in TodoPayloads : TodosPutV(u, id, p)
    \/ \E u \in Owner, id \in 1..MaxId : TodosToggle(u, id)
    \/ \E u \in Owner, id \in 1..MaxId, permanent \in BOOLEAN : TodosDeleteV(u, id, permanent)
    \/ \E u \in Owner, ms \in Batches("todos") : TodosSync(u, NullTime, ms)
    \/ \E u \in Owner, cid \in ClientIds \cup {NoCid}, p \in EventPayloads : EventsPost(u, cid, p)
    \/ \E u \in Owner, id \in 1..MaxId, p \in EventPayloads : EventsPut(u, id, p)
    \/ \E u \in Owner, id \in 1..MaxId, permanent \in BOOLEAN : EventsDelete(u, id, permanent)
    \/ \E u \in Owner, ms \in Batches("events") : EventsSync(u, NullTime, ms)
    \/ \E u \in Owner, cid \in ClientIds \cup {NoCid}, p \in ExpensePayloads : ExpensesPost(u, cid, p)
    \/ \E u \in Owner, id \in 1..MaxId, p \in ExpensePayloads : ExpensesPut(u, id, p)
    \/ \E u \in Owner, id \in 1..MaxId, permanent \in BOOLEAN : ExpensesDelete(u, id, permanent)
    \/ \E u \in Owner, ms \in Batches("expenses") : ExpensesSync(u, NullTime, ms)
    \/ Mounted("events.js") /\ scanReminders(1)

Spec == Init /\ [][Next]_vars

\* ------------------------------------------------- the life of one record
\* Sync requests that carry one update.
UpdateBatches(tbl) == { <<m>> : m \in { x \in Mutations(tbl) : x.id # NoId } }

RouterTable ==
    CASE router \in {"todos.js", "todos.sync"} -> "todos"
      [] router = "events.js" -> "events"
      [] OTHER -> "expenses"

\* One record of the mounted router's table, as its POST created it.
CreatedRows ==
    { [i \in 1..1 |-> NewRow(RouterTable, 1, cid, p,
                             IF Mounted("todos.js") THEN NullTime ELSE clock)] :
        cid \in (IF Mounted("todos.js") THEN {NoCid} ELSE ClientIds \cup {NoCid}),
        p \in PayloadsOf(RouterTable) }

InitRecord ==
    /\ clock = Interval
    /\ router \in Routers
    /\ rows \in CreatedRows
    /\ nextId = 2
    /\ resp = NoResponse
    /\ emitted = EmptyBag
    /\ lastFire = [s \in Scanners \cup {ServerJs} |-> 0]
    /\ scan = [s \in Scanners |-> IdleScan]
    /\ call = [c \in Calls |-> IdleCall]
    /\ device = NewDevice
    /\ otpStore = << >>
    /\ users = {}
    /\ inbox = << >>
    /\ Started

\* Every operation that writes an existing record, and the scanner.
NextRecord ==
    \/ \E u \in Owner, id \in 1..MaxId, p \in TodoPayloads : TodosPut(u, id, p)
    \/ \E u \in Owner, id \in 1..MaxId : TodosDelete(u, id)
    \/ \E u \in Owner, id \in 1..MaxId, p \in TodoPayloads : TodosPutV(u, id, p)
    \/ \E u \in Owner, id \in 1..MaxId : TodosToggle(u, id)
    \/ \E u \in Owner, id \in 1..MaxId, permanent \in BOOLEAN : TodosDeleteV(u, id, permanent)
    \/ \E u \in Owner, ms \in UpdateBatches("todos") : TodosSync(u, NullTime, ms)
    \/ \E u \in Owner, id \in 1..MaxId, p \in EventPayloads : EventsPut(u, id, p)
    \/ \E u \in Owner, id \in 1..MaxId, permanent \in BOOLEAN : EventsDelete(u, id, permanent)
    \/ \E u \in Owner, ms \in UpdateBatches("events") : EventsSync(u, NullTime, ms)
    \/ \E u \in Owner, id \in 1..MaxId, p \in ExpensePayloads : ExpensesPut(u, id, p)
    \/ \E u \in Owner, id \in 1..MaxId, permanent \in BOOLEAN : ExpensesDelete(u, id, permanent)
    \/ \E u \in Owner, ms \in UpdateBatches("expenses") : ExpensesSync(u, NullTime, ms)
    \/ Mounted("events.js") /\ scanReminders(1)

SpecRecord == InitRecord /\ [][NextRecord]_vars

\* ------------------------------------------- a sync call whose write fails
\* The mutation loop of the mounted sync route.
SyncLoopOf(st, u, ms) ==
    CASE Mounted("todos.sync") -> TodosSyncLoop(st, u, ms)
      [] Mounted("events.js") -> EventsSyncLoop(st, u, ms)
      [] OTHER -> ExpensesSyncLoop(st, u, ms)

SyncOpOf ==
    CASE Mounted("todos.sync") -> "TodosSync"
      [] Mounted("events.js") -> "EventsSync"
      [] OTHER -> "ExpensesSync"

\* A rollback that keeps the writes made before the failing statement.
RollbackKeepsWrites(before, st) == st.rows

\* client.query('ROLLBACK'): the rows are the ones committed before BEGIN.
Rollback(before, st) == before

\* POST /sync in which the statement of the k-th mutation throws: the catch
\* block rolls back and answers 500.  The values the INSERTs before it took from
\* the id sequence are not given back.
SyncFail(u, ms, k) ==
    LET st == SyncLoopOf(SyncState(rows, nextId), u, SubSeq(ms, 1, k - 1))
    IN  /\ Mounted("todos.sync") \/ Mounted("events.js") \/ Mounted("expenses.js")
        /\ k \in 1..Len(ms)
        /\ Fits(st)
        /\ rows' = Rollback(rows, st)
        /\ nextId' = st.nextId
        /\ resp' = [Response(SyncOpOf, u, NoId, 500, <<>>) EXCEPT !.req = ms]
        /\ UNCHANGED <<clock, emitted, lastFire, router, scan, call, device, auth>>

\* Sync requests of up to BatchLen mutations: creates with a client_id and
\* updates of the first record, believing version 0 or 1.
BatchLen == MaxBatch + 1

BatchMutations(tbl) ==
    { m \in Mutations(tbl) : /\ m.p.title = "b"
                             /\ m.id = NoId => m.client_id # NoCid
                             /\ m.id \in {NoId, FirstId}
                             /\ m.version <= 1 }

LongBatches(tbl) == SeqsUpTo(BatchMutations(tbl), BatchLen) \ { <<>> }

InitBatch ==
    /\ clock = Interval
    /\ router \in {"todos.sync", "events.js", "expenses.js"}
    /\ rows \in CreatedRows
    /\ nextId = 2
    /\ resp = NoResponse
    /\ emitted = EmptyBag
    /\ lastFire = [s \in Scanners \cup {ServerJs} |-> 0]
    /\ scan = [s \in Scanners |-> IdleScan]
    /\ call = [c \in Calls |-> IdleCall]
    /\ device = NewDevice
    /\ otpStore = << >>
    /\ users = {}
    /\ inbox = << >>
    /\ Started

NextBatch ==
    \/ \E u \in Owner, ms \in LongBatches("todos") : TodosSync(u, NullTime, ms)
    \/ \E u \in Owner, ms \in LongBatches("events") : EventsSync(u, NullTime, ms)
    \/ \E u \in Owner, ms \in LongBatches("expenses") : ExpensesSync(u, NullTime, ms)
    \/ \E u \in Owner, ms \in LongBatches(RouterTable), k \in 1..BatchLen : SyncFail(u, ms, k)

SpecBatch == InitBatch /\ [][NextBatch]_vars

\* ----------------------------------------- a device following its watermark
\* What a device holds after a response: per id the row it was sent last, the
\* result of its own mutation over the serverChanges row of the same id.
Received(got, changes, synced) ==
    LET cids == { e.id : e \in changes }
        sids == { synced[k].id : k \in DOMAIN synced }
        last(i) == CHOOSE k \in DOMAIN synced :
                      synced[k].id = i /\ \A j \in DOMAIN synced : synced[j].id = i => j <= k
    IN  [i \in DOMAIN got \cup cids \cup sids |->
            IF i \in sids THEN synced[last(i)].row
            ELSE IF i \in cids THEN (CHOOSE e \in changes : e.id = i).row
            ELSE got[i]]

\* POST /api/events/sync sent by the device with the syncTime of its previous
\* call as lastSyncTime; it stores the rows and the syncTime of the response.
DeviceSync(u, ms) ==
    LET changes == ChangedSince(rows, "events", u, device.watermark)
        st == EventsSyncLoop(SyncState(rows, nextId), u, ms)
    IN  /\ Mounted("events.js")
        /\ Fits(st)
        /\ rows' = st.rows
        /\ nextId' = st.nextId
        /\ resp' = SyncResponse("EventsSync", u, device.watermark, ms,
                                st.synced, st.conflicts, changes)
        /\ device' = [watermark |-> resp'.syncTime,
                      got |-> Received(device.got, changes, st.synced)]
        /\ UNCHANGED <<clock, emitted, lastFire, router, scan, call, auth>>

\* One event created by another device; that device and direct requests go on
\* writing it while the clock advances and the device syncs.
InitFeed ==
    /\ clock = Interval
    /\ router = "events.js"
    /\ rows \in CreatedRows
    /\ nextId = 2
    /\ resp = NoResponse
    /\ emitted = EmptyBag
    /\ lastFire = [s \in Scanners \cup {ServerJs} |-> 0]
    /\ scan = [s \in Scanners |-> IdleScan]
    /\ call = [c \in Calls |-> IdleCall]
    /\ device = NewDevice
    /\ otpStore = << >>
    /\ users = {}
    /\ inbox = << >>
    /\ Started

NextFeed ==
    \/ Tick
    \/ \E u \in Owner, id \in 1..MaxId, p \in EventPayloads : EventsPut(u, id, p)
    \/ \E u \in Owner, id \in 1..MaxId, permanent \in BOOLEAN : EventsDelete(u, id, permanent)
    \/ \E u \in Owner, ms \in UpdateBatches("events") \cup { <<>> } : DeviceSync(u, ms)

SpecFeed == InitFeed /\ [][NextFeed]_vars

\* ------------------------------------------------- the scanner over time
\* Due instants of the triggers present when the server processes start.
DueTimes == Epoch..MaxClock

\* A todo with reminder and deadline at d and an event at e, recurring or not,
\* with pattern pat, created through POST /api/todos and POST /api/events before
\* the start.
TriggerRows(d, e, rec, pat) ==
    LET todo == NewRow("todos", 1, NoCid,
                       Payload("a", FALSE, d, d, NullTime, FALSE, "none"), clock)
        event == NewRow("events", 1, NoCid,
                        Payload("b", FALSE, NullTime, NullTime, e, rec, pat), clock)
    IN  [i \in 1..2 |-> IF i = 1 THEN todo ELSE event]

InitScan ==
    /\ clock = 0
    /\ rows \in { TriggerRows(d, e, rec, pat) :
                   d \in DueTimes, e \in DueTimes, rec \in BOOLEAN, pat \in Patterns }
    /\ nextId = 3
    /\ resp = NoResponse
    /\ emitted = EmptyBag
    /\ lastFire = [s \in Scanners \cup {ServerJs} |-> 0]
    /\ router = "events.js"
    /\ scan = [s \in Scanners |-> IdleScan]
    /\ call = [c \in Calls |-> IdleCall]
    /\ device = NewDevice
    /\ otpStore = << >>
    /\ users = {}
    /\ inbox = << >>
    /\ Started

\* Timers fire no earlier than one interval after the previous firing and as
\* late as the process and the event loop let them.
NextScan ==
    \/ Tick
    \/ \E s \in Scanners : scanReminders(s)
    \/ scanRemindersJs(ServerJs)

SpecScan == InitScan /\ [][NextScan]_vars

\* ------------------------------------- sync calls, statement by statement
\* POST /sync of todos (part_007) and expenses (routes/expenses.js) as the
\* statements each call sends on its own pool connection, under PostgreSQL's
\* default READ COMMITTED isolation.
InFlight(c) == call[c].pc \notin {"idle", "done"}

\* What the statements of call c read: the committed rows under its own writes.
View(c) ==
    [i \in DOMAIN rows \cup DOMAIN call[c].pending |->
        IF i \in DOMAIN call[c].pending THEN call[c].pending[i] ELSE rows[i]]

\* The row lock an UPDATE takes: no other open transaction has written the row.
Unlocked(c, id) ==
    \A d \in Calls \ {c} : InFlight(d) => id \notin DOMAIN call[d].pending

SyncTable == IF Mounted("todos.sync") THEN "todos" ELSE "expenses"

\* client.query('BEGIN') and the serverChanges SELECT.
SyncBegin(c, u, ms) ==
    /\ Mounted("todos.sync") \/ Mounted("expenses.js")
    /\ call[c].pc = "idle"
    /\ call' = [d \in Calls |->
                  IF d = c
                  THEN [IdleCall EXCEPT !.pc = "loop", !.user = u, !.req = ms, !.rest = ms,
                                        !.changes = ChangedSince(rows, SyncTable, u, NullTime),
                                        !.overlapped = \E e \in Calls \ {c} : InFlight(e)]
                  ELSE IF InFlight(d) THEN [call[d] EXCEPT !.overlapped = TRUE]
                  ELSE call[d]]
    /\ UNCHANGED <<rows, nextId, clock, resp, emitted, lastFire, router, scan, device, auth>>

\* SELECT version FROM todos WHERE id = $1 AND user_id = $2 (0: no row).
TodosSyncRead(c) ==
    /\ Mounted("todos.sync")
    /\ call[c].pc = "loop" /\ call[c].rest # <<>>
    /\ Head(call[c].rest).id # NoId
    /\ LET id == Head(call[c].rest).id
       IN  call' = [call EXCEPT ![c].pc = "read",
                                ![c].seen = IF Owns(View(c), "todos", call[c].user, id)
                                            THEN View(c)[id].version ELSE 0]
    /\ UNCHANGED <<rows, nextId, clock, resp, emitted, lastFire, router, scan, device, auth>>

\* The branch on the version read: no row, conflict, or the UPDATE, which waits
\* for the row lock and then writes the row as it is committed by then.
TodosSyncWrite(c) ==
    /\ call[c].pc = "read"
    /\ LET m == Head(call[c].rest)
           next == [call[c] EXCEPT !.pc = "loop", !.rest = Tail(@)]
       IN  IF call[c].seen = 0
           THEN call' = [call EXCEPT ![c] = next]
           ELSE IF TodosConflict(call[c].seen, m)
           THEN call' = [call EXCEPT ![c] = [next EXCEPT !.conflicts =
                            Append(@, [client |-> m, serverVersion |-> call[c].seen])]]
           ELSE /\ Unlocked(c, m.id)
                /\ Owns(View(c), "todos", call[c].user, m.id)
                /\ LET r == Touch(TodosSyncUpdate(View(c)[m.id], m))
                   IN  call' = [call EXCEPT ![c] =
                                   [next EXCEPT !.pending = Insert(@, m.id, r),
                                                !.synced = Append(@, Returned(m.id, r))]]
    /\ UNCHANGED <<rows, nextId, clock, resp, emitted, lastFire, router, scan, device, auth>>

\* UPDATE expenses ... version = version + 1 WHERE id = $7 AND user_id = $8.
ExpensesSyncWrite(c) ==
    /\ Mounted("expenses.js")
    /\ call[c].pc = "loop" /\ call[c].rest # <<>>
    /\ Head(call[c].rest).id # NoId
    /\ LET m == Head(call[c].rest)
           next == [call[c] EXCEPT !.rest = Tail(@)]
       IN  IF Owns(View(c), "expenses", call[c].user, m.id)
           THEN /\ Unlocked(c, m.id)
                /\ View(c)[m.id].version < VersionCap("expenses")
                /\ LET r == Touch(ExpensesUpdate(View(c)[m.id], m.p))
                   IN  call' = [call EXCEPT ![c] =
                                   [next EXCEPT !.pending = Insert(@, m.id, r),
                                                !.synced = Append(@, Returned(m.id, r))]]
           ELSE call' = [call EXCEPT ![c] = next]
    /\ UNCHANGED <<rows, nextId, clock, resp, emitted, lastFire, router, scan, device, auth>>

\* INSERT INTO <table> (..., client_id, last_synced_at) for an entry without id.
SyncInsert(c) ==
    /\ call[c].pc = "loop" /\ call[c].rest # <<>>
    /\ Head(call[c].rest).id = NoId
    /\ nextId <= MaxId
    /\ LET m == Head(call[c].rest)
           r == NewRow(SyncTable, call[c].user, m.client_id, m.p, clock)
       IN  call' = [call EXCEPT ![c].rest = Tail(@),
                                ![c].pending = Insert(@, nextId, r),
                                ![c].synced = Append(@, Returned(nextId, r))]
    /\ nextId' = nextId + 1
    /\ UNCHANGED <<rows, clock, resp, emitted, lastFire, router, scan, device, auth>>

\* client.query('COMMIT') and res.json.
SyncCommit(c) ==
    /\ call[c].pc = "loop" /\ call[c].rest = <<>>
    /\ rows' = View(c)
    /\ resp' = SyncResponse(IF SyncTable = "todos" THEN "TodosSync" ELSE "ExpensesSync",
                            call[c].user, NullTime, call[c].req, call[c].synced,
                            call[c].conflicts, call[c].changes)
    /\ call' = [call EXCEPT ![c].pc = "done", ![c].pending = << >>]
    /\ UNCHANGED <<nextId, clock, emitted, lastFire, router, scan, device, auth>>

\* ------------------------------ scanReminders (part_002), query by query
\* The columns eventQuery selects of an event row.
Selected(i, r) ==
    [id |-> i, event_date |-> r.event_date, is_recurring |-> r.is_recurring,
     recurrence_pattern |-> r.recurrence_pattern]

\* The timer of process s fires and the run sends its three SELECTs (Promise.all
\* of pool.query, each its own transaction).  setInterval does not wait for the
\* promise of the previous run: the runs still in flight stay in flight.
ScanSelect(s) ==
    /\ clock >= lastFire[s] + Interval
    /\ lastFire' = [lastFire EXCEPT ![s] = clock]
    /\ scan' = [scan EXCEPT ![s] = @ \cup
                  {[pc |-> "selected", at |-> clock,
                    todos |-> { n \in Published(rows, clock, s) : n.kind # "event_due" },
                    events |-> { Selected(i, rows[i]) : i \in EventRows(rows, clock) }]}]
    /\ UNCHANGED <<rows, nextId, clock, resp, emitted, router, call, device, auth>>

\* The two forEach loops of run r emitting todo_reminder and todo_deadline.
ScanEmitTodos(s, r) ==
    /\ r \in scan[s]
    /\ r.pc = "selected"
    /\ emitted' = emitted (+) SetToBag(r.todos)
    /\ scan' = [scan EXCEPT ![s] = (@ \ {r}) \cup {[r EXCEPT !.pc = "events"]}]
    /\ UNCHANGED <<rows, nextId, clock, resp, lastFire, router, call, device, auth>>

\* One round of `for (const e of eventsRes.rows)` of run r: io.emit('event_due')
\* and, for a recurring event, the advancing UPDATE sent through pool.query.
ScanEvent(s, r, e) ==
    /\ r \in scan[s]
    /\ r.pc = "events"
    /\ e \in r.events
    /\ emitted' = emitted (+) SetToBag({Notification("event_due", e.id, e.event_date, s)})
    /\ rows' = IF Advances(e) /\ e.id \in DOMAIN rows
               THEN [rows EXCEPT ![e.id] = Advance(@, e.recurrence_pattern)]
               ELSE rows
    /\ scan' = [scan EXCEPT ![s] = (@ \ {r}) \cup {[r EXCEPT !.events = @ \ {e}]}]
    /\ UNCHANGED <<nextId, clock, resp, lastFire, router, call, device, auth>>

\* Run r returns.
ScanDone(s, r) ==
    /\ r \in scan[s]
    /\ r.pc = "events"
    /\ r.events = {}
    /\ scan' = [scan EXCEPT ![s] = @ \ {r}]
    /\ UNCHANGED <<rows, nextId, clock, resp, emitted, lastFire, router, call, device, auth>>

\* ---------------- POST /api/todos with idempotency by client_id (part_007)
\* if (client_id) SELECT * FROM todos WHERE user_id = $1 AND client_id = $2: the
\* call answers with a row the query returned, or goes on to its INSERT.
TodosPostSelect(c, u, cid, p) ==
    /\ Mounted("todos.create")
    /\ call[c].pc = "idle"
    /\ LET exists == { i \in DOMAIN rows : /\ rows[i].tbl = "todos"
                                           /\ rows[i].user_id = u
                                           /\ rows[i].client_id = cid }
       IN  IF cid # NoCid /\ exists # {}
           THEN /\ \E id \in exists :
                      resp' = [Response("TodosCreate", u, id, 200, <<Returned(id, rows[id])>>)
                                 EXCEPT !.req = <<[client_id |-> cid, p |-> p]>>]
                /\ call' = call
           ELSE /\ call' = [call EXCEPT ![c] = [IdleCall EXCEPT !.pc = "insert", !.user = u,
                                    !.req = <<[client_id |-> cid, p |-> p]>>]]
                /\ resp' = resp
    /\ UNCHANGED <<rows, nextId, clock, emitted, lastFire, router, scan, device, auth>>

\* INSERT INTO todos (user_id, ..., client_id) VALUES (...) RETURNING * and
\* res.json of the call whose SELECT returned no row.
TodosPostInsert(c) ==
    /\ Mounted("todos.create")
    /\ call[c].pc = "insert"
    /\ nextId <= MaxId
    /\ LET m == call[c].req[1]
       IN  /\ rows' = Insert(rows, nextId,
                         [NewRow("todos", call[c].user, m.client_id, m.p, NullTime)
                            EXCEPT !.is_completed = FALSE])
           /\ resp' = [Response("TodosCreate", call[c].user, nextId, 200,
                                <<Returned(nextId, rows'[nextId])>>)
                         EXCEPT !.req = call[c].req]
    /\ nextId' = nextId + 1
    /\ call' = [call EXCEPT ![c] = IdleCall]
    /\ UNCHANGED <<clock, emitted, lastFire, router, scan, device, auth>>

\* Two connections and two scanner processes against one store: a record at
\* version 1 for the sync calls, which run within one instant of the clock, and
\* the trigger rows due at the first timer firing for the scanner runs.
InitConc ==
    /\ clock = Interval
    /\ router \in {"todos.sync", "todos.create", "expenses.js", "events.js"}
    /\ rows \in IF Mounted("events.js")
                THEN { TriggerRows(Interval, Interval, rec, IF rec THEN "weekly" ELSE "none") : rec \in BOOLEAN }
                ELSE IF Mounted("todos.create") THEN { << >> }
                ELSE { [i \in 1..1 |-> NewRow(SyncTable, 1, NoCid, p, clock)] :
                         p \in PayloadsOf(SyncTable) }
    /\ nextId = Len(rows) + 1
    /\ resp = NoResponse
    /\ emitted = EmptyBag
    /\ lastFire = [s \in Scanners \cup {ServerJs} |-> 0]
    /\ scan = [s \in Scanners |-> IdleScan]
    /\ call = [c \in Calls |-> IdleCall]
    /\ device = NewDevice
    /\ otpStore = << >>
    /\ users = {}
    /\ inbox = << >>
    /\ Started

NextConc ==
    \/ \E c \in Calls, u \in Owner, ms \in Batches(SyncTable) : SyncBegin(c, u, ms)
    \/ \E c \in Calls : TodosSyncRead(c)
    \/ \E c \in Calls : TodosSyncWrite(c)
    \/ \E c \in Calls : ExpensesSyncWrite(c)
    \/ \E c \in Calls : SyncInsert(c)
    \/ \E c \in Calls : SyncCommit(c)
    \/ \E c \in Calls, u \in Owner, cid \in ClientIds \cup {NoCid}, p \in TodoPayloads :
          TodosPostSelect(c, u, cid, p)
    \/ \E c \in Calls : TodosPostInsert(c)
    \/ \E s \in Scanners : Mounted("events.js") /\ ScanSelect(s)
    \/ \E s \in Scanners : \E r \in scan[s] : ScanEmitTodos(s, r)
    \/ \E s \in Scanners : \E r \in scan[s] : \E e \in r.events : ScanEvent(s, r, e)
    \/ \E s \in Scanners : \E r \in scan[s] : ScanDone(s, r)
    \/ Mounted("events.js") /\ Tick

SpecConc == InitConc /\ [][NextConc]_vars

\* ------------------- events reconciled by updated_at (second events router)
\* A mutation of the sync body: the client's row with its own updated_at, absent
\* (NullTime) when the client sends none.
StampedMutations ==
    [id : {NoId} \cup (1..MaxId), updated_at : {NullTime} \cup (Epoch..MaxClock),
     p : EventPayloads]

StampedUpdates == { <<m>> : m \in { x \in StampedMutations : x.id # NoId } }

\* A comparison that never finds the server row newer.
EventsStampConflictNever(serverStamp, m) == FALSE

\* new Date(existing.rows[0].updated_at) > new Date(event.updated_at); with no
\* updated_at in the mutation the right side is an invalid date and the
\* comparison is false.
EventsStampConflict(serverStamp, m) ==
    m.updated_at # NullTime /\ serverStamp > m.updated_at

\* The SET list of the UPDATE of PUT /:id and of the sync route.
EventsStampUpdate(r, p) ==
    [r EXCEPT !.title = p.title, !.event_date = p.event_date,
              !.is_recurring = p.is_recurring, !.updated_at = clock]

\* INSERT INTO events (user_id, title, ..., is_recurring, notification_enabled):
\* recurrence_pattern, client_id and last_synced_at keep their defaults.
EventsStampRow(u, p) ==
    [NewRow("events", u, NoCid, p, NullTime) EXCEPT !.recurrence_pattern = "none"]

\* PUT /api/events/:id of the second events router.
EventsPutT(u, id, p) ==
    /\ Mounted("events.sync")
    /\ IF Owns(rows, "events", u, id)
       THEN /\ rows' = Put(rows, id, EventsStampUpdate(rows[id], p))
            /\ resp' = Response("EventsPutT", u, id, 200, <<Returned(id, rows'[id])>>)
       ELSE /\ rows' = rows
            /\ resp' = Response("EventsPutT", u, id, 404, <<>>)
    /\ UNCHANGED <<nextId, clock, emitted, lastFire, router, scan, call, device, auth>>

\* The body of `for (const event of events)` for one event.
EventsSyncOneT(st, u, m) ==
    IF m.id # NoId
    THEN IF Owns(st.rows, "events", u, m.id)
         THEN IF EventsStampConflict(st.rows[m.id].updated_at, m)
              THEN [st EXCEPT !.conflicts =
                       Append(@, [client |-> m,
                                  serverStamp |-> st.rows[m.id].updated_at])]
              ELSE LET r == Touch(EventsStampUpdate(st.rows[m.id], m.p))
                   IN  [st EXCEPT !.rows = [@ EXCEPT ![m.id] = r],
                                  !.synced = Append(@, Returned(m.id, r))]
         ELSE st
    ELSE LET r == EventsStampRow(u, m.p)
         IN  [st EXCEPT !.rows = Insert(@, st.nextId, r),
                        !.nextId = @ + 1,
                        !.synced = Append(@, Returned(st.nextId, r))]

RECURSIVE EventsSyncLoopT(_, _, _)
EventsSyncLoopT(st, u, ms) ==
    IF ms = <<>> THEN st
    ELSE EventsSyncLoopT(EventsSyncOneT(st, u, Head(ms)), u, Tail(ms))

\* SELECT * FROM events WHERE user_id = $1 AND updated_at > $2
UpdatedSince(rs, u, w) ==
    { [id |-> i, row |-> rs[i]] :
        i \in { j \in DOMAIN rs : /\ rs[j].tbl = "events"
                                  /\ rs[j].user_id = u
                                  /\ rs[j].updated_at > Since(w) } }

\* POST /api/events/sync of the second events router.
EventsSyncT(u, w, ms) ==
    LET changes == UpdatedSince(rows, u, w)
        st == EventsSyncLoopT(SyncState(rows, nextId), u, ms)
    IN  /\ Mounted("events.sync")
        /\ Fits(st)
        /\ rows' = st.rows
        /\ nextId' = st.nextId
        /\ resp' = SyncResponse("EventsSyncT", u, w, ms, st.synced, st.conflicts, changes)
        /\ UNCHANGED <<clock, emitted, lastFire, router, scan, call, device, auth>>

\* One event created by POST, then edits by PUT and by sync calls as time passes.
InitStamp ==
    /\ clock = Interval
    /\ router = "events.sync"
    /\ rows \in { [i \in 1..1 |-> EventsStampRow(1, p)] : p \in EventPayloads }
    /\ nextId = 2
    /\ resp = NoResponse
    /\ emitted = EmptyBag
    /\ lastFire = [s \in Scanners \cup {ServerJs} |-> 0]
    /\ scan = [s \in Scanners |-> IdleScan]
    /\ call = [c \in Calls |-> IdleCall]
    /\ device = NewDevice
    /\ otpStore = << >>
    /\ users = {}
    /\ inbox = << >>
    /\ Started

NextStamp ==
    \/ Tick
    \/ \E u \in Owner, id \in 1..MaxId, p \in EventPayloads : EventsPutT(u, id, p)
    \/ \E u \in Owner, ms \in StampedUpdates : EventsSyncT(u, NullTime, ms)

SpecStamp == InitStamp /\ [][NextStamp]_vars

\* ------------------------------------------------------- ordinary reads
\* The rows of a result set in the order of its ORDER BY: every id of S once,
\* the pair of each row and a row after it in the relation before.
Listing(S, before) ==
    { q \in [1..Cardinality(S) -> S] :
        \A i, j \in 1..Cardinality(S) : i < j => q[i] # q[j] /\ <<q[i], q[j]>> \in before }

\* res.json({ success: true, data: result.rows })
ListResponse(op, u, q) ==
    Response(op, u, NoId, 200, [k \in DOMAIN q |-> Returned(q[k], rows[q[k]])])

\* GET /api/todos: WHERE user_id = $1 AND is_deleted = false ORDER BY created_at
\* DESC; rows are created in the order of their ids.
TodosList(u) ==
    LET ids == { i \in DOMAIN rows : Owns(rows, "todos", u, i) /\ ~rows[i].is_deleted }
        newer == { ab \in ids \X ids : ab[1] > ab[2] }
    IN  /\ Mounted("todos.js")
        /\ \E q \in Listing(ids, newer) : resp' = ListResponse("TodosList", u, q)
        /\ UNCHANGED <<rows, nextId, clock, emitted, lastFire, router, scan, call, device, auth>>

\* GET /api/todos/:id: WHERE id = $1 AND user_id = $2
TodosGet(u, id) ==
    /\ Mounted("todos.js")
    /\ resp' = IF Owns(rows, "todos", u, id)
               THEN Response("TodosGet", u, id, 200, <<Returned(id, rows[id])>>)
               ELSE Response("TodosGet", u, id, 404, <<>>)
    /\ UNCHANGED <<rows, nextId, clock, emitted, lastFire, router, scan, call, device, auth>>

\* GET /api/events with the query parameters includeDeleted and upcoming,
\* ORDER BY event_date ASC.
EventsList(u, includeDeleted, upcoming) ==
    LET ids == { i \in DOMAIN rows : /\ Owns(rows, "events", u, i)
                                     /\ includeDeleted \/ ~rows[i].is_deleted
                                     /\ upcoming => rows[i].event_date > clock }
        earlier == { ab \in ids \X ids : rows[ab[1]].event_date <= rows[ab[2]].event_date }
    IN  /\ Mounted("events.js")
        /\ \E q \in Listing(ids, earlier) :
              resp' = ListResponse(IF includeDeleted THEN "EventsListDeleted"
                                   ELSE "EventsList", u, q)
        /\ UNCHANGED <<rows, nextId, clock, emitted, lastFire, router, scan, call, device, auth>>

\* GET /api/events/:id: WHERE id = $1 AND user_id = $2
EventsGet(u, id) ==
    /\ Mounted("events.js")
    /\ resp' = IF Owns(rows, "events", u, id)
               THEN Response("EventsGet", u, id, 200, <<Returned(id, rows[id])>>)
               ELSE Response("EventsGet", u, id, 404, <<>>)
    /\ UNCHANGED <<rows, nextId, clock, emitted, lastFire, router, scan, call, device, auth>>

\* One record, edited, deleted and read through the routers of routes/.
InitRead ==
    /\ InitRecord
    /\ router \in {"todos.js", "events.js"}

NextRead ==
    \/ \E u \in Owner, id \in 1..MaxId, p \in TodoPayloads : TodosPut(u, id, p)
    \/ \E u \in Owner, id \in 1..MaxId : TodosDelete(u, id)
    \/ \E u \in Owner : TodosList(u)
    \/ \E u \in Owner, id \in 1..MaxId : TodosGet(u, id)
    \/ \E u \in Owner, id \in 1..MaxId, p \in EventPayloads : EventsPut(u, id, p)
    \/ \E u \in Owner, id \in 1..MaxId, permanent \in BOOLEAN : EventsDelete(u, id, permanent)
    \/ \E u \in Owner, del \in BOOLEAN, up \in BOOLEAN : EventsList(u, del, up)
    \/ \E u \in Owner, id \in 1..MaxId : EventsGet(u, id)

SpecRead == InitRead /\ [][NextRead]_vars

\* ------------------------------------------------- seeded rows (scripts/seed.js)
\* seedData: INSERT INTO events (user_id, title, description, event_date,
\* event_type, notification_enabled); every other column keeps its default, so
\* last_synced_at is NULL. One row stands for the three the script inserts.
seedData(u) ==
    /\ Mounted("events.js")
    /\ nextId <= MaxId
    /\ rows' = Insert(rows, nextId,
                 NewRow("events", u, NoCid,
                        Payload("a", FALSE, NullTime, NullTime, clock + Day, FALSE, "none"),
                        NullTime))
    /\ nextId' = nextId + 1
    /\ UNCHANGED <<clock, resp, emitted, lastFire, router, scan, call, device, auth>>

\* An empty store filled by the seed script and by POST, then written and synced.
InitSeed ==
    /\ Init
    /\ router = "events.js"

NextSeed ==
    \/ \E u \in Owner : seedData(u)
    \/ \E u \in Owner, p \in EventPayloads : EventsPost(u, NoCid, p)
    \/ \E u \in Owner, id \in 1..MaxId, p \in EventPayloads : EventsPut(u, id, p)
    \/ \E u \in Owner, id \in 1..MaxId : EventsDelete(u, id, FALSE)
    \/ \E u \in Owner : EventsSync(u, NullTime, <<>>)

SpecSeed == InitSeed /\ [][NextSeed]_vars

\* ------------------------------------ deletes while a scanner run is in flight
\* The trigger rows due at the first timer firing, one scanner process running
\* query by query, and the owner soft-deleting the event through DELETE /:id.
InitGone ==
    /\ InitConc
    /\ router = "events.js"

NextGone ==
    \/ \E u \in Owner, id \in 1..MaxId : EventsDelete(u, id, FALSE)
    \/ \E s \in {1} : ScanSelect(s)
    \/ \E s \in {1} : \E r \in scan[s] : ScanEmitTodos(s, r)
    \/ \E s \in {1} : \E r \in scan[s] : \E e \in r.events : ScanEvent(s, r, e)
    \/ \E s \in {1} : \E r \in scan[s] : ScanDone(s, r)
    \/ Tick

SpecGone == InitGone /\ [][NextGone]_vars

\* ------------------------------------------- a tick whose io.emit throws
\* The io.emit calls of one run in the order the run makes them: the rows of
\* todoReminderRes, then of todoDeadlineRes, then of eventsRes, each result set
\* in the order the store returned it (the queries have no ORDER BY).
EmitOrders(rs, now, s) ==
    LET rem == { n \in Published(rs, now, s) : n.kind = "todo_reminder" }
        dl  == { n \in Published(rs, now, s) : n.kind = "todo_deadline" }
        ev  == { n \in Published(rs, now, s) : n.kind = "event_due" }
    IN  { a \o b \o c : a \in Listing(rem, rem \X rem), b \in Listing(dl, dl \X dl),
                        c \in Listing(ev, ev \X ev) }

\* A run of scanReminders whose k-th io.emit throws: the emits before it were
\* made and the events before it advanced; the exception leaves the loops and
\* reaches the catch of the function, which logs 'Scan Error'.
scanRemindersThrow(s, q, k) ==
    LET done == { q[j] : j \in 1..(k - 1) }
        advanced == { n.id : n \in { m \in done : m.kind = "event_due" } }
    IN  /\ clock >= lastFire[s] + Interval
        /\ q \in EmitOrders(rows, clock, s)
        /\ k \in 1..Len(q)
        /\ lastFire' = [lastFire EXCEPT ![s] = clock]
        /\ emitted' = emitted (+) SetToBag(done)
        /\ rows' = [i \in DOMAIN rows |->
                       IF i \in advanced /\ Advances(rows[i])
                       THEN Advance(rows[i], rows[i].recurrence_pattern) ELSE rows[i]]
        /\ UNCHANGED <<nextId, clock, resp, router, scan, call, device, auth>>

NextThrow ==
    \/ Tick
    \/ \E s \in {1} : scanReminders(s)
    \/ \E s \in {1} : \E q \in EmitOrders(rows, clock, s) :
          \E k \in 1..Len(q) : scanRemindersThrow(s, q, k)

SpecThrow == InitScan /\ [][NextThrow]_vars

\* --------------------------------------------------- two owners, one store
\* The payload the requests of the two users write over the created record.
Edits(tbl) == { p \in PayloadsOf(tbl) : p.title = "b" }

\* Sync requests of one mutation, a create or an update of any id, believing
\* version 0 or 1.
OneMutation(tbl) ==
    { <<m>> : m \in { x \in Mutations(tbl) :
                        x.client_id = NoCid /\ x.version <= 1 /\ x.p \in Edits(tbl) } }

\* The scenario creates one record besides the one it starts with.
Room == nextId <= FirstId + 1

\* A record of the second user in the mounted router's table; both users then
\* send the requests of the router, naming any id.
InitOwners ==
    /\ clock = Interval
    /\ router \in Routers
    /\ rows \in { [i \in 1..1 |-> NewRow(RouterTable, 2, cid, p,
                                         IF Mounted("todos.js") THEN NullTime ELSE clock)] :
                    cid \in (IF Mounted("todos.js") THEN {NoCid} ELSE ClientIds),
                    p \in PayloadsOf(RouterTable) \ Edits(RouterTable) }
    /\ nextId = 2
    /\ resp = NoResponse
    /\ emitted = EmptyBag
    /\ lastFire = [s \in Scanners \cup {ServerJs} |-> 0]
    /\ scan = [s \in Scanners |-> IdleScan]
    /\ call = [c \in Calls |-> IdleCall]
    /\ device = NewDevice
    /\ otpStore = << >>
    /\ users = {}
    /\ inbox = << >>
    /\ Started

NextOwners ==
    \/ \E u \in Users, p \in Edits("todos") : Room /\ TodosPost(u, p)
    \/ \E u \in Users, id \in 1..MaxId, p \in Edits("todos") : TodosPut(u, id, p)
    \/ \E u \in Users, id \in 1..MaxId : TodosDelete(u, id)
    \/ \E u \in Users : TodosList(u)
    \/ \E u \in Users, id \in 1..MaxId : TodosGet(u, id)
    \/ \E u \in Users, p \in Edits("todos") : Room /\ TodosPostV(u, NoCid, p)
    \/ \E u \in Users, id \in 1..MaxId, p \in Edits("todos") : TodosPutV(u, id, p)
    \/ \E u \in Users, id \in 1..MaxId : TodosToggle(u, id)
    \/ \E u \in Users, id \in 1..MaxId, permanent \in BOOLEAN : TodosDeleteV(u, id, permanent)
    \/ \E u \in Users, ms \in OneMutation("todos") :
          (ms[1].id = NoId => Room) /\ TodosSync(u, NullTime, ms)
    \/ \E u \in Users, p \in Edits("events") : Room /\ EventsPost(u, NoCid, p)
    \/ \E u \in Users, id \in 1..MaxId, p \in Edits("events") : EventsPut(u, id, p)
    \/ \E u \in Users, id \in 1..MaxId, permanent \in BOOLEAN : EventsDelete(u, id, permanent)
    \/ \E u \in Users, del \in BOOLEAN : EventsList(u, del, FALSE)
    \/ \E u \in Users, id \in 1..MaxId : EventsGet(u, id)
    \/ \E u \in Users, ms \in OneMutation("events") :
          (ms[1].id = NoId => Room) /\ EventsSync(u, NullTime, ms)
    \/ \E u \in Users, p \in Edits("expenses") : Room /\ ExpensesPost(u, NoCid, p)
    \/ \E u \in Users, id \in 1..MaxId, p \in Edits("expenses") : ExpensesPut(u, id, p)
    \/ \E u \in Users, id \in 1..MaxId, permanent \in BOOLEAN : ExpensesDelete(u, id, permanent)
    \/ \E u \in Users, ms \in OneMutation("expenses") :
          (ms[1].id = NoId => Room) /\ ExpensesSync(u, NullTime, ms)

SpecOwners == InitOwners /\ [][NextOwners]_vars

\* ------------------------------------------- registration (routes/auth.js)
Emails == {"e1", "e2"}

\* generateOTP: crypto.randomInt(100000, 999999).toString()
Otps == {"123456", "654321"}

\* storeOTP: expiresAt = Date.now() + 5 * 60 * 1000
OtpLife == 5 * Minute

\* A Map with key k set to v.
MapSet(m, k, v) == [x \in DOMAIN m \cup {k} |-> IF x = k THEN v ELSE m[x]]

\* A Map without key k.
MapDelete(m, k) == [x \in DOMAIN m \ {k} |-> m[x]]

\* res.json of an auth route, with the email and the code of the request.
AuthResponse(op, email, otp, status) ==
    [Response(op, 0, NoId, status, <<>>) EXCEPT !.req = <<[email |-> email, otp |-> otp]>>]

\* A verifyOTP that leaves a matching code in the Map.
verifyOTPKeeps(store, email, otp) ==
    IF email \notin DOMAIN store
    THEN [success |-> FALSE, store |-> store]
    ELSE IF clock > store[email].expiresAt
    THEN [success |-> FALSE, store |-> MapDelete(store, email)]
    ELSE [success |-> store[email].otp = otp, store |-> store]

\* verifyOTP(email, otp) of emailService: what it returns and the Map it leaves.
verifyOTP(store, email, otp) ==
    IF email \notin DOMAIN store
    THEN [success |-> FALSE, store |-> store]
    ELSE IF clock > store[email].expiresAt
    THEN [success |-> FALSE, store |-> MapDelete(store, email)]
    ELSE IF store[email].otp # otp
    THEN [success |-> FALSE, store |-> store]
    ELSE [success |-> TRUE, store |-> MapDelete(store, email)]

\* POST /api/auth/send-otp; otp is the code generateOTP draws, sent tells
\* whether sendOTPEmail delivered the mail.
SendOtp(email, type, otp, sent) ==
    /\ IF type = "registration" /\ email \in users
       THEN /\ resp' = AuthResponse("SendOtp", email, "", 400)
            /\ UNCHANGED <<otpStore, inbox>>
       ELSE IF type = "forgot_password" /\ email \notin users
       THEN /\ resp' = AuthResponse("SendOtp", email, "", 404)
            /\ UNCHANGED <<otpStore, inbox>>
       ELSE /\ otpStore' = MapSet(otpStore, email, [otp |-> otp, expiresAt |-> clock + OtpLife])
            /\ inbox' = IF sent THEN MapSet(inbox, email, otp) ELSE inbox
            /\ resp' = AuthResponse("SendOtp", email, "", IF sent THEN 200 ELSE 500)
    /\ UNCHANGED <<rows, nextId, clock, emitted, lastFire, router, scan, call, device, users,
                   boot>>

\* POST /api/auth/verify-otp
VerifyOtp(email, otp) ==
    LET result == verifyOTP(otpStore, email, otp)
    IN  /\ otpStore' = result.store
        /\ resp' = AuthResponse("VerifyOtp", email, otp, IF result.success THEN 200 ELSE 400)
        /\ UNCHANGED <<rows, nextId, clock, emitted, lastFire, router, scan, call, device,
                       users, inbox, boot>>

\* POST /api/auth/register with a valid password and fullName
Register(email, otp) ==
    LET otpResult == verifyOTP(otpStore, email, otp)
    IN  /\ otpStore' = otpResult.store
        /\ IF ~otpResult.success \/ email \in users
           THEN /\ resp' = AuthResponse("Register", email, otp, 400)
                /\ users' = users
           ELSE /\ resp' = AuthResponse("Register", email, otp, 201)
                /\ users' = users \cup {email}
        /\ UNCHANGED <<rows, nextId, clock, emitted, lastFire, router, scan, call, device,
                       inbox, boot>>

\* No account yet, and no code or a code that was mailed earlier and expires
\* within the behaviour; users ask for codes, verify them and register as time
\* passes.
InitAuth ==
    /\ clock = Interval
    /\ router = "events.js"
    /\ rows = << >>
    /\ nextId = 1
    /\ resp = NoResponse
    /\ emitted = EmptyBag
    /\ lastFire = [s \in Scanners \cup {ServerJs} |-> 0]
    /\ scan = [s \in Scanners |-> IdleScan]
    /\ call = [c \in Calls |-> IdleCall]
    /\ device = NewDevice
    /\ users = {}
    /\ Started
    /\ \E email \in Emails, otp \in Otps, t \in (Interval + 1)..MaxClock, had \in BOOLEAN :
          /\ otpStore = IF had THEN MapSet(<< >>, email, [otp |-> otp, expiresAt |-> t])
                        ELSE << >>
          /\ inbox = IF had THEN MapSet(<< >>, email, otp) ELSE << >>

NextAuth ==
    \/ Tick
    \/ \E email \in Emails, type \in {"registration", "forgot_password"},
          otp \in Otps, sent \in BOOLEAN : SendOtp(email, type, otp, sent)
    \/ \E email \in Emails, otp \in Otps : VerifyOtp(email, otp)
    \/ \E email \in Emails, otp \in Otps : Register(email, otp)

SpecAuth == InitAuth /\ [][NextAuth]_vars

\* ------------------------------------------------ the timer keeps firing
\* One server process whose setInterval(scanReminders, 60000) fires on time, one
\* interval after the start and after each firing, while the store's clock runs.
NextLate ==
    \/ clock < lastFire[1] + Interval /\ Tick
    \/ scanReminders(1)

SpecLate ==
    /\ InitScan
    /\ [][NextLate]_vars
    /\ WF_vars(Tick)
    /\ WF_vars(scanReminders(1))

\* ------------------------------------- a device syncing while the scanner runs
\* One event of the owner, created by another device; the scanner of one server
\* process advances it when it falls due and the device syncs with its watermark,
\* sending no mutation.
NextAdvance ==
    \/ Tick
    \/ scanReminders(1)
    \/ \E u \in Owner : DeviceSync(u, <<>>)

SpecAdvance == InitFeed /\ [][NextAdvance]_vars

\* ------------------------------------------------ who receives an io.emit
\* io.on('connection'): a socket per signed-in user; the handler reads no token
\* and joins no room.
Sockets == Users

\* io.emit(kind, payload) of the Server instance: every connected socket.
Recipients(n) == { k \in Sockets : TRUE }

\* ------------------------------------------------ the start of the process
\* The process from the call of startServer at the end of the server file: the
\* rounds of its loop while the store's clock runs, and the ticks of the timer
\* once setInterval registered it.
InitBoot ==
    /\ clock = 0
    /\ rows \in { TriggerRows(d, e, rec, pat) :
                   d \in DueTimes, e \in DueTimes, rec \in BOOLEAN, pat \in Patterns }
    /\ nextId = 3
    /\ resp = NoResponse
    /\ emitted = EmptyBag
    /\ lastFire = [s \in Scanners \cup {ServerJs} |-> 0]
    /\ router = "events.js"
    /\ scan = [s \in Scanners |-> IdleScan]
    /\ call = [c \in Calls |-> IdleCall]
    /\ device = NewDevice
    /\ otpStore = << >>
    /\ users = {}
    /\ inbox = << >>
    /\ boot = [pc |-> "connecting", attempt |-> 1, initialised |-> 0, timers |-> 0]

NextBoot ==
    \/ \E ok \in BOOLEAN : startServer(ok)
    \/ Tick
    \/ boot.timers > 0 /\ scanReminders(1)

SpecBoot == InitBoot /\ [][NextBoot]_vars

\* ------------------------------------------------------------------ claims
\* A step taken by a request handler (the scanner and the clock leave resp alone
\* and change lastFire or clock).
IsRequest == lastFire' = lastFire /\ clock' = clock

SyncOps == {"TodosSync", "EventsSync", "ExpensesSync"}

WriteOps == {"TodosPut", "TodosDelete", "TodosPutV", "TodosToggle", "TodosDeleteV",
             "EventsPut", "EventsDelete", "ExpensesPut", "ExpensesDelete"}

TableOf(op) ==
    CASE op \in {"TodosSync"} -> "todos"
      [] op \in {"EventsSync"} -> "events"
      [] OTHER -> "expenses"

Range(q) == { q[k] : k \in DOMAIN q }

\* The ids of the rows a response reports as written.
Written(r) ==
    IF r.op \in SyncOps THEN { e.id : e \in Range(r.synced) }
    ELSE IF r.op \in WriteOps /\ r.status = 200 THEN {r.id}
    ELSE {}

\* The update entries of a sync request that were stale when the call arrived.
Stale(rs, r) ==
    { m \in Range(r.req) : /\ m.id # NoId
                           /\ Owns(rs, TableOf(r.op), r.user, m.id)
                           /\ m.version < rs[m.id].version }

\* C1: every accepted write to an existing record (direct update, toggle, soft
\* delete, update applied by a sync call) leaves its version strictly greater than
\* before, and no step decreases a version.
C1_RevisionStrictlyIncreases ==
    [][ /\ \A id \in DOMAIN rows \cap DOMAIN rows' : rows'[id].version >= rows[id].version
        /\ IsRequest =>
              \A id \in Written(resp') \cap DOMAIN rows \cap DOMAIN rows' :
                  rows'[id].version > rows[id].version ]_vars

\* C2: a sync call that repeats the previous sync call of the owner (same create
\* mutation with the same client_id, no id) inserts nothing, resolves the mutation
\* to the id the first call returned, and one row carries that client_id.
C2_IdempotentCreate ==
    [][ ( /\ IsRequest
          /\ resp.op \in SyncOps /\ resp'.op = resp.op /\ resp'.user = resp.user
          /\ resp'.req = resp.req
          /\ \A m \in Range(resp.req) : m.id = NoId /\ m.client_id # NoCid )
        => /\ \A k \in DOMAIN resp.synced : /\ k \in DOMAIN resp'.synced
                                            /\ resp'.synced[k].id = resp.synced[k].id
           /\ \A m \in Range(resp.req) :
                Cardinality({ i \in DOMAIN rows' :
                                /\ rows'[i].tbl = TableOf(resp.op)
                                /\ rows'[i].user_id = resp.user
                                /\ rows'[i].client_id = m.client_id }) = 1 ]_vars

\* C3: a sync update whose believed revision is lower than the record's current
\* revision is rejected: the record is unchanged and the rejected entry reports
\* the current server revision (every entity type).
C3_StaleUpdateRejected ==
    [][ (IsRequest /\ resp'.op \in SyncOps) =>
           \A m \in Stale(rows, resp') :
              /\ m.id \in DOMAIN rows' /\ rows'[m.id] = rows[m.id]
              /\ \E c \in Range(resp'.conflicts) :
                    c.client = m /\ c.serverVersion = rows[m.id].version ]_vars

\* C4: once a record has is_deleted = true no step sets it back to false, and no
\* sync response returns its id with is_deleted = false.
C4_TombstonePermanent ==
    [][ /\ \A id \in DOMAIN rows \cap DOMAIN rows' :
              rows[id].is_deleted => rows'[id].is_deleted
        /\ (IsRequest /\ resp'.op \in SyncOps) =>
              \A e \in Range(resp'.synced) \cup resp'.serverChanges :
                  (e.id \in DOMAIN rows /\ rows[e.id].is_deleted) => e.row.is_deleted ]_vars

\* C4 witness: a tombstoned event was the target of a later sync update carrying
\* an older revision, and the response returned it still deleted.
C4_Witness ==
    /\ resp.op = "EventsSync"
    /\ \E e \in Range(resp.synced) :
          /\ e.id \in DOMAIN rows /\ rows[e.id].is_deleted /\ e.row.is_deleted
          /\ \E m \in Range(resp.req) : m.id = e.id /\ m.version + 1 < rows[e.id].version

\* C5: an expense at revision 3 held by two devices: the first sync update that
\* believes revision 3 is accepted and makes it revision 4; the second one, still
\* believing 3, is rejected with serverState.revision = 4 and changes nothing.
C5_TwoDevicesRevision3 ==
    [][ ( /\ IsRequest /\ resp'.op = "ExpensesSync" /\ Len(resp'.req) = 1
          /\ resp'.req[1].id # NoId /\ resp'.req[1].version = 3
          /\ Owns(rows, "expenses", resp'.user, resp'.req[1].id) )
        => LET id == resp'.req[1].id
           IN  /\ rows[id].version = 3 =>
                     /\ rows'[id].version = 4
                     /\ \E e \in Range(resp'.synced) : e.id = id /\ e.row.version = 4
               /\ ( /\ rows[id].version = 4
                    /\ resp.op = "ExpensesSync" /\ Written(resp) = {id}
                    /\ resp.req[1].version = 3 ) =>
                     /\ rows'[id] = rows[id]
                     /\ \E c \in Range(resp'.conflicts) :
                           c.client = resp'.req[1] /\ c.serverVersion = 4 ]_vars

\* A step in which the timer of scanner process s fired.
ScanStep(s) == lastFire'[s] # lastFire[s]

\* How many times the processes of procs published (kind, id, time).
Occurrences(bag, kind, id, time, procs) ==
    LET ns == { n \in BagToSet(bag) : /\ n.kind = kind /\ n.id = id
                                      /\ n.time = time /\ n.by \in procs }
    IN  BagCardinality([n \in ns |-> bag[n]])

\* The notifications a step adds to the published ones.
NewlyPublished == { n \in BagToSet(emitted') : CopiesIn(n, emitted') > CopiesIn(n, emitted) }

WeeklyEvent(r) ==
    /\ r.tbl = "events" /\ ~r.is_deleted
    /\ r.is_recurring /\ r.recurrence_pattern = "weekly"

C8_WindowsContiguous ==
    [][ (ScanStep(1) /\ lastFire[2] = 0) =>
          /\ lastFire'[1] - Interval = lastFire[1]
          /\ \A i \in DOMAIN rows' :
                LET r == rows'[i]
                    live == ~r.is_deleted /\ ~r.is_completed
                    passed(t) == t # NullTime /\ t > 0 /\ t < lastFire'[1]
                IN  /\ (r.tbl = "todos" /\ live /\ passed(r.reminder_time)) =>
                       Occurrences(emitted', "todo_reminder", i, r.reminder_time, {1}) = 1
                    /\ (r.tbl = "todos" /\ live /\ passed(r.due_date)) =>
                       Occurrences(emitted', "todo_deadline", i, r.due_date, {1}) = 1
                    /\ (r.tbl = "events" /\ live /\ passed(r.event_date)) =>
                       Occurrences(emitted', "event_due", i, r.event_date, {1}) = 1 ]_vars

\* C9: a tick at NOW() = now publishes only triggers due in [now - 1 min, now):
\* none due at now or later (so none due 2 minutes ahead), and every live todo
\* reminder due in that window is published by it, once.
C9_OnlyInsideWindow ==
    [][ \A s \in Scanners \cup {ServerJs} : ScanStep(s) =>
          /\ \A n \in NewlyPublished :
                n.by = s => (n.time >= clock - Interval /\ n.time < clock)
          /\ \A i \in DOMAIN rows :
                ( /\ rows[i].tbl = "todos" /\ ~rows[i].is_deleted /\ ~rows[i].is_completed
                  /\ rows[i].reminder_time # NullTime
                  /\ rows[i].reminder_time >= clock - Interval
                  /\ rows[i].reminder_time < clock ) =>
                   Occurrences(emitted', "todo_reminder", i, rows[i].reminder_time, {s}) = 1 ]_vars

\* Call c accepted its update of record id / rejected it as stale.
Accepted(c, id) == \E e \in Range(call[c].synced) : e.id = id

Rejected(c, id) == \E k \in Range(call[c].conflicts) : k.client.id = id

\* C6: two sync calls of one owner that overlapped in time and each carried one
\* update of the same record with the same believed version, the version the
\* record had when each call began: at most one is
\* accepted, the other one is rejected as stale, and the record's version went
\* up once per accepted update.
C6_ConcurrentUpdatesOneWins ==
    \A c \in Calls : \A d \in Calls \ {c} :
       ( /\ call[c].pc = "done" /\ call[d].pc = "done"
         /\ call[c].overlapped /\ call[d].overlapped
         /\ call[c].user = call[d].user
         /\ Len(call[c].req) = 1 /\ Len(call[d].req) = 1
         /\ call[c].req[1].id # NoId
         /\ call[c].req[1].id = call[d].req[1].id
         /\ call[c].req[1].version = call[d].req[1].version
         /\ \A x \in {c, d} : \E e \in call[x].changes :
               e.id = call[c].req[1].id /\ e.row.version = call[c].req[1].version
         /\ call[c].req[1].id \in DOMAIN rows )
       => LET id == call[c].req[1].id
          IN  /\ ~(Accepted(c, id) /\ Accepted(d, id))
              /\ Accepted(c, id) => Rejected(d, id)
              /\ (Accepted(c, id) /\ Accepted(d, id)) =>
                    rows[id].version >= call[c].req[1].version + 2

\* C10: with two scanner processes running against one store, each occurrence
\* (id, due instant) of a recurring event has at most one event_due published.
C10_OccurrenceAtMostOnce ==
    \A n \in BagToSet(emitted) :
       ( /\ n.kind = "event_due" /\ n.by \in Scanners
         /\ n.id \in DOMAIN rows /\ Advances(rows[n.id]) )
       => Occurrences(emitted, "event_due", n.id, n.time, Scanners) <= 1

\* C11: a run of scanReminders never starts in a process while an earlier run of
\* that process is still in flight: each process has at most one run in flight.
C11_TicksNeverOverlap ==
    \A s \in Scanners : Cardinality(scan[s]) <= 1

\* The last entry a response returns for record id.
LastSynced(r, id) ==
    LET ks == { k \in DOMAIN r.synced : r.synced[k].id = id }
    IN  r.synced[CHOOSE k \in ks : \A j \in ks : j <= k]

\* C12: a sync call whose write fails answers 500 and leaves every row as it was
\* before the call; a sync call that succeeds has applied every mutation it
\* reports as synced (the row of each returned id is the last one returned).
C12_SyncAllOrNothing ==
    [][ (IsRequest /\ resp'.op \in SyncOps) =>
          /\ resp'.status = 500 => rows' = rows
          /\ resp'.status = 200 =>
                \A e \in Range(resp'.synced) :
                   /\ e.id \in DOMAIN rows'
                   /\ rows'[e.id] = LastSynced(resp', e.id).row ]_vars

\* C12 witness: a call of two mutations failed at its second write after its
\* first write, a create, had run (the id sequence moved), and no row was added.
C12_Witness ==
    /\ resp.op \in SyncOps /\ resp.status = 500
    /\ Len(resp.req) = 2 /\ resp.req[1].id = NoId
    /\ nextId = 3 /\ DOMAIN rows = {1}

\* C13: a device that passes each returned syncTime to its next sync call misses
\* no change: after every step each live or tombstoned record of its owner either
\* is held by the device in its current state or is stamped after the device's
\* watermark, so that the next call returns it.
C13_NoChangeSkipped ==
    \A id \in DOMAIN rows :
       rows[id].user_id \in Owner =>
          \/ id \in DOMAIN device.got /\ device.got[id] = rows[id]
          \/ rows[id].last_synced_at > Since(device.watermark)

\* C14: the serverChanges of a sync response are the owner's records stamped
\* after the request's watermark, without the records the call itself created or
\* updated: no id of syncedEvents is among the serverChanges.
C14_OwnWritesNotEchoed ==
    [][ (IsRequest /\ resp'.op \in SyncOps /\ resp'.status = 200) =>
          resp'.serverChanges =
             { e \in ChangedSince(rows', TableOf(resp'.op), resp'.user, resp'.since) :
                 e.id \notin Written(resp') } ]_vars

\* C15: every update a sync call accepts leaves the record at exactly the version
\* the server held before plus one, stamped with the server clock, whatever
\* version the client sent and whether or not the payload differs.
C15_AcceptedBumpsByOne ==
    [][ (IsRequest /\ resp'.op \in SyncOps /\ resp'.status = 200) =>
          \A id \in Written(resp') \cap DOMAIN rows :
              /\ rows'[id].version = rows[id].version + 1
              /\ rows'[id].last_synced_at = clock
              /\ rows'[id].updated_at = clock ]_vars

\* The ids of the owner's live or deleted rows of a table that carry a client_id.
IdsOfKey(rs, tbl, u, cid) ==
    { i \in DOMAIN rs : Owns(rs, tbl, u, i) /\ cid # NoCid /\ rs[i].client_id = cid }

\* C16: in a sync call of one mutation, a mutation without id whose client_id is on
\* no row is inserted under a new id; a mutation without id whose client_id is on
\* an existing row is applied to that row and inserts nothing; an update that
\* carries the version the server holds is accepted.
C16_CreateUpdateDispatch ==
    [][ ( /\ IsRequest /\ resp'.op \in SyncOps /\ resp'.status = 200
          /\ Len(resp'.req) = 1 ) =>
          LET m   == resp'.req[1]
              tbl == TableOf(resp'.op)
              ids == IdsOfKey(rows, tbl, resp'.user, m.client_id)
          IN  /\ (m.id = NoId /\ ids = {}) =>
                    /\ DOMAIN rows' = DOMAIN rows \cup {nextId}
                    /\ Written(resp') = {nextId}
              /\ (m.id = NoId /\ ids # {}) =>
                    /\ DOMAIN rows' = DOMAIN rows
                    /\ Written(resp') \subseteq ids /\ Written(resp') # {}
              /\ (m.id # NoId /\ Owns(rows, tbl, resp'.user, m.id)
                    /\ m.version = rows[m.id].version) =>
                    Written(resp') = {m.id} ]_vars

\* C17: in the sync route that reconciles events by updated_at, an update whose
\* updated_at is later than the server row's is applied to the row, and an update
\* whose updated_at is earlier than the server row's leaves every row as it was
\* and comes back in conflicts.
C17_LaterTimestampWins ==
    [][ (IsRequest /\ resp'.op = "EventsSyncT" /\ Len(resp'.req) = 1) =>
          LET m == resp'.req[1]
              ids == { e.id : e \in Range(resp'.synced) }
          IN  (m.id # NoId /\ Owns(rows, "events", resp'.user, m.id)
                 /\ m.updated_at # NullTime) =>
                /\ m.updated_at > rows[m.id].updated_at =>
                      /\ ids = {m.id}
                      /\ resp'.conflicts = <<>>
                      /\ rows'[m.id].title = m.p.title
                      /\ rows'[m.id].event_date = m.p.event_date
                      /\ rows'[m.id].is_recurring = m.p.is_recurring
                      /\ rows'[m.id].updated_at = clock
                /\ rows[m.id].updated_at > m.updated_at =>
                      /\ rows' = rows
                      /\ ids = {}
                      /\ Len(resp'.conflicts) = 1
                      /\ resp'.conflicts[1].client = m ]_vars

\* A sync call answered with a conflict for an update older than the row, the
\* row carrying a different title than the update.
C17_Witness ==
    /\ resp.op = "EventsSyncT"
    /\ Len(resp.conflicts) = 1
    /\ LET m == resp.conflicts[1].client
       IN  /\ m.id \in DOMAIN rows
           /\ m.updated_at # NullTime
           /\ rows[m.id].updated_at > m.updated_at
           /\ rows[m.id].title # m.p.title

\* C18: a delete of an event sent by a client that holds the record at a version
\* lower than the server's is rejected: no row changes, the record is not
\* tombstoned or removed, and the response is not a success.
C18_StaleDeleteRejected ==
    [][ ( /\ IsRequest /\ resp'.op = "EventsDelete"
          /\ Owns(rows, "events", resp'.user, resp'.id)
          /\ resp'.id \in DOMAIN device.got
          /\ device.got[resp'.id].version < rows[resp'.id].version ) =>
          /\ rows' = rows
          /\ resp'.status # 200 ]_vars

\* The ids handed out so far whose record its owner deleted: the row carries
\* is_deleted or is gone.
DeletedIds(rs, nid) ==
    { i \in FirstId..(nid - 1) : i \notin DOMAIN rs \/ rs[i].is_deleted }

\* C19: a sync call of the owner that sends no lastSyncTime (a watermark earlier
\* than every deletion) returns every record deleted before the call in
\* serverChanges, marked is_deleted.
C19_DeletionReachesSync ==
    [][ ( /\ IsRequest /\ resp'.op = "EventsSync" /\ resp'.status = 200
          /\ resp'.since = NullTime ) =>
          \A id \in DeletedIds(rows, nextId) :
              \E e \in resp'.serverChanges : e.id = id /\ e.row.is_deleted ]_vars

ReadOps == {"TodosList", "TodosGet", "EventsList", "EventsGet"}

\* C20: no list or get-by-id response of the ordinary read routes carries a
\* record that is soft-deleted.
C20_ReadsHideDeleted ==
    (resp.op \in ReadOps /\ resp.status = 200) =>
        \A e \in Range(resp.synced) : ~e.row.is_deleted

\* C21: a sync call that sends no lastSyncTime and no mutation returns in serverChanges every row
\* the owner has in the table, tombstones included, whether a route or the seed
\* script created it.
C21_NoWatermarkSendsEverything ==
    [][ ( /\ IsRequest /\ resp'.op \in SyncOps /\ resp'.status = 200
          /\ resp'.since = NullTime /\ resp'.req = <<>> /\ rows' = rows ) =>
          \A id \in DOMAIN rows :
              Owns(rows, TableOf(resp'.op), resp'.user, id) =>
                 \E e \in resp'.serverChanges : e.id = id ]_vars

\* C22: once the soft delete of a trigger record has committed, no step of a
\* scanner run emits a notification for the record or changes its event_date.
C22_TombstoneStopsScanner ==
    [][ \A id \in DOMAIN rows :
          rows[id].is_deleted =>
             /\ id \in DOMAIN rows' => rows'[id].event_date = rows[id].event_date
             /\ \A n \in BagToSet(emitted') :
                   n.id = id => CopiesIn(n, emitted') = CopiesIn(n, emitted) ]_vars

\* C23 as stated: a tick of scanReminders changes no column of any row other
\* than the event_date of the events it advances.
C23_OnlyDueInstantChanges ==
    [][ \A s \in Scanners : ScanStep(s) =>
          /\ DOMAIN rows' = DOMAIN rows
          /\ \A i \in DOMAIN rows :
                rows'[i] = [rows[i] EXCEPT !.event_date = rows'[i].event_date] ]_vars

\* C23: a tick of scanReminders leaves every row as it was, except the recurring
\* events it advances: of those it changes event_date and stamps updated_at with
\* the server clock, and no other column (title, version, last_synced_at,
\* is_deleted, recurrence) changes.
C23_AdvanceChangesDateAndStamp ==
    [][ \A s \in Scanners : ScanStep(s) =>
          /\ DOMAIN rows' = DOMAIN rows
          /\ \A i \in DOMAIN rows :
                \/ rows'[i] = rows[i]
                \/ /\ rows[i].tbl = "events" /\ rows[i].is_recurring
                   /\ rows'[i].event_date # rows[i].event_date
                   /\ rows'[i] = [rows[i] EXCEPT !.event_date = rows'[i].event_date,
                                                 !.updated_at = clock] ]_vars

\* An event advanced by a tick after its creation: its event_date is a week
\* later, its updated_at is later than that of the todo created with it.
C23_Witness ==
    \E i \in DOMAIN rows :
       /\ rows[i].tbl = "events" /\ rows[i].is_recurring
       /\ rows[i].event_date > Week
       /\ rows[i].version = 1
       /\ \E j \in DOMAIN rows : rows[j].tbl = "todos" /\ rows[j].updated_at < rows[i].updated_at

\* C24: in a tick of scanReminders in which one io.emit fails, every other due
\* trigger of the tick is published: at most one of the notifications the tick's
\* queries call for is missing from what the tick published.
C24_PublishFaultIsolated ==
    [][ \A s \in Scanners : ScanStep(s) =>
          Cardinality(Published(rows, clock, s) \ NewlyPublished) <= 1 ]_vars

\* C25: a tick of scanReminders that published its todo notifications advances
\* every due recurring event it selected to its next occurrence, whether or not
\* the io.emit of an event_due failed.
C25_AdvanceSurvivesPublishFault ==
    [][ \A s \in Scanners :
          ( /\ ScanStep(s)
            /\ \A n \in Published(rows, clock, s) :
                  n.kind # "event_due" => n \in NewlyPublished ) =>
          \A i \in EventRows(rows, clock) :
             Advances(rows[i]) =>
                rows'[i].event_date
                   = rows[i].event_date + IntervalOf(rows[i].recurrence_pattern) ]_vars

\* C26: a sync call of one mutation that names an id its owner does not hold
\* changes no row and reports the mutation back: the response, which has the
\* lists synced and conflicts, carries the mutation in one of them.
C26_UnknownIdReported ==
    [][ ( /\ IsRequest /\ resp'.op \in SyncOps /\ resp'.status = 200
          /\ Len(resp'.req) = 1
          /\ resp'.req[1].id # NoId
          /\ ~Owns(rows, TableOf(resp'.op), resp'.user, resp'.req[1].id) ) =>
          /\ rows' = rows
          /\ Len(resp'.synced) + Len(resp'.conflicts) = 1
          /\ \A k \in DOMAIN resp'.conflicts :
                resp'.conflicts[k].client = resp'.req[1] ]_vars

C28_OwnerIsolation ==
    [][ LET u == resp'.user
        IN  /\ \A id \in DOMAIN rows :
                  rows[id].user_id # u => id \in DOMAIN rows' /\ rows'[id] = rows[id]
            /\ \A id \in DOMAIN rows' \ DOMAIN rows : rows'[id].user_id = u
            /\ \A e \in Range(resp'.synced) : e.row.user_id = u
            /\ \A e \in resp'.serverChanges : e.row.user_id = u
            /\ \A c \in Range(resp'.conflicts) :
                  c.client.id \in DOMAIN rows /\ rows[c.client.id].user_id = u ]_vars

\* A write, sync or read of one user that named the id of the other user's
\* record: answered without a row, the record as it was created.
C28_Witness ==
    /\ resp.status \in {200, 404}
    /\ resp.synced = <<>>
    /\ \/ resp.id \in DOMAIN rows /\ rows[resp.id].user_id # resp.user
       \/ /\ Len(resp.req) = 1 /\ resp.req[1].id \in DOMAIN rows
          /\ rows[resp.req[1].id].user_id # resp.user
    /\ \A id \in DOMAIN rows : rows[id].user_id # resp.user => rows[id].version = 1

\* C29: the updated_at a sync call of the second events router stores is the
\* server clock, and the updated_at the client sends decides nothing: the same
\* mutation sent with any other updated_at leaves the same rows and the same
\* number of conflicts.
C29_ClientStampDecidesNothing ==
    [][ (IsRequest /\ resp'.op = "EventsSyncT" /\ Len(resp'.req) = 1) =>
          /\ \A e \in Range(resp'.synced) : rows'[e.id].updated_at = clock
          /\ \A t \in {NullTime} \cup (Epoch..MaxClock) :
                LET other == [resp'.req[1] EXCEPT !.updated_at = t]
                    st == EventsSyncLoopT(SyncState(rows, nextId), resp'.user, <<other>>)
                IN  /\ st.rows = rows'
                    /\ Len(st.conflicts) = Len(resp'.conflicts) ]_vars

\* C30: a register call that follows a successful verify-otp call with the same
\* email and the same code, the code of the mail last delivered to an email
\* without account and not yet expired, creates the account.
C30_RegistrationFlowSucceeds ==
    [][ ( /\ resp.op = "VerifyOtp" /\ resp.status = 200
          /\ resp'.op = "Register" /\ resp'.req = resp.req
          /\ LET e == resp.req[1].email
             IN  /\ e \notin users
                 /\ e \in DOMAIN inbox /\ inbox[e] = resp.req[1].otp ) =>
          /\ resp'.status = 201
          /\ resp'.req[1].email \in users' ]_vars

\* A step of verify-otp or register in which verifyOTP returned success.
OtpAccepted ==
    \/ resp'.op = "VerifyOtp" /\ resp'.status = 200
    \/ resp'.op = "Register" /\ resp'.status = 201

C32_AdvanceByOneInterval ==
    [][ \A s \in Scanners : ScanStep(s) =>
          \A i \in EventRows(rows, clock) :
             LET r == rows[i]
                 moved == rows'[i].event_date - r.event_date
             IN  /\ (r.is_recurring /\ r.recurrence_pattern = "daily") => moved = Day
                 /\ (r.is_recurring /\ r.recurrence_pattern = "weekly") => moved = 7 * Day
                 /\ (r.is_recurring /\ r.recurrence_pattern = "monthly") => moved = Month
                 /\ (r.is_recurring /\ r.recurrence_pattern = "yearly") => moved = Year
                 /\ (~r.is_recurring \/ r.recurrence_pattern = "none") => moved = 0 ]_vars

\* A monthly event that was due inside the window of the last tick of process 1
\* and is now due one month later, after that tick published it.
C32_Witness ==
    \E i \in DOMAIN rows :
       /\ rows[i].tbl = "events" /\ rows[i].is_recurring
       /\ rows[i].recurrence_pattern = "monthly"
       /\ lastFire[1] > 0
       /\ InWindow(rows[i].event_date - Month, lastFire[1])
       /\ Occurrences(emitted, "event_due", i, rows[i].event_date - Month, {1}) = 1

\* C33: under the todos router with idempotent POST, whatever the interleaving
\* of the POST calls, no two todos of one owner carry the same client_id, and a
\* POST that names a client_id answers with the one todo that carries it.
C33_OneTaskPerClientId ==
    Mounted("todos.create") =>
       /\ \A i \in DOMAIN rows : \A j \in DOMAIN rows :
             ( /\ rows[i].tbl = "todos" /\ rows[j].tbl = "todos"
               /\ rows[i].user_id = rows[j].user_id
               /\ rows[i].client_id # NoCid
               /\ rows[i].client_id = rows[j].client_id ) => i = j
       /\ (resp.op = "TodosCreate" /\ resp.req[1].client_id # NoCid) =>
             \A i \in DOMAIN rows :
                ( /\ rows[i].tbl = "todos" /\ rows[i].user_id = resp.user
                  /\ rows[i].client_id = resp.req[1].client_id ) => i = resp.id

\* C34: with ticks of two processes in flight at once, every step that moves the
\* event_date of an event moves it by one interval of its pattern, away from an
\* instant for which an event_due was published: no due instant of the series is
\* passed over without a notification.
C34_OneAdvancePerOccurrence ==
    [][ \A i \in DOMAIN rows :
          (rows[i].tbl = "events" /\ rows'[i].event_date # rows[i].event_date) =>
             /\ rows'[i].event_date
                  = rows[i].event_date + IntervalOf(rows[i].recurrence_pattern)
             /\ Occurrences(emitted', "event_due", i, rows[i].event_date, Scanners) >= 1 ]_vars

\* C35: while the timer keeps firing, from some tick on no live recurring event
\* with a pattern is due further in the past than one scan window: each one was
\* rolled forward to a due instant the ticks have not passed.
C35_RecurringEventCatchesUp ==
    <>[](\A i \in DOMAIN rows :
            (rows[i].tbl = "events" /\ ~rows[i].is_deleted /\ Advances(rows[i])) =>
               rows[i].event_date > clock - Interval)

\* The scanner advanced event i to its present event_date after instant w.
AdvancedSince(i, w) ==
    /\ rows[i].tbl = "events" /\ Advances(rows[i])
    /\ rows[i].updated_at > w
    /\ \E n \in BagToSet(emitted) :
          /\ n.kind = "event_due" /\ n.id = i
          /\ rows[i].event_date = n.time + IntervalOf(rows[i].recurrence_pattern)

\* C36: a sync call of the owner with a watermark earlier than the scanner's
\* advance of an event returns that event, with the event_date the advance gave
\* it, in serverChanges.
C36_AdvanceReachesDevices ==
    [][ (IsRequest /\ resp'.op = "EventsSync" /\ resp'.since # NullTime) =>
          \A i \in DOMAIN rows :
             (rows[i].user_id = resp'.user /\ AdvancedSince(i, resp'.since)) =>
                \E e \in resp'.serverChanges :
                   e.id = i /\ e.row.event_date = rows[i].event_date ]_vars

\* C37: a sync call of the events or of the expenses route leaves every column
\* of a record that is deleted (is_deleted = true) as it was, whatever update its
\* mutations carry for it.
C37_TombstoneImmutableThroughSync ==
    [][ (IsRequest /\ resp'.op \in {"EventsSync", "ExpensesSync"} /\ resp'.status = 200) =>
          \A m \in Range(resp'.req) :
             (m.id \in DOMAIN rows /\ rows[m.id].is_deleted) =>
                /\ m.id \in DOMAIN rows'
                /\ rows'[m.id] = rows[m.id] ]_vars

\* C38: every notification the scanner published for a record was delivered to
\* sockets of the record's owner only.
C38_DeliveredToOwnerOnly ==
    \A n \in BagToSet(emitted) :
       n.id \in DOMAIN rows => \A k \in Recipients(n) : k = rows[n.id].user_id

\* C39: startServer makes at most Retries (5) connection attempts; the round in
\* which the connection succeeds runs the schema initialisation once, registers
\* the scanner timer once and starts listening, and no round follows it; a
\* failed round is followed by the next attempt, or, at attempt 5, by the exit
\* of the process, which has registered no timer and never ran the scanner.
C39_StartServerRetriesThenExits ==
    [][ /\ boot'.attempt \in 1..5
        /\ boot'.timers <= 1 /\ boot'.initialised <= 1
        /\ boot' # boot =>
              /\ boot.pc = "connecting"
              /\ \/ /\ boot'.pc = "listening"
                    /\ boot'.attempt = boot.attempt
                    /\ boot'.initialised = 1 /\ boot'.timers = 1
                 \/ /\ boot'.pc = "connecting"
                    /\ boot.attempt < 5 /\ boot'.attempt = boot.attempt + 1
                    /\ boot'.initialised = 0 /\ boot'.timers = 0
                 \/ /\ boot'.pc = "exited"
                    /\ boot.attempt = 5
                    /\ boot'.initialised = 0 /\ boot'.timers = 0
        /\ boot'.pc # "listening" => (lastFire'[1] = 0 /\ emitted' = EmptyBag) ]_vars

\* The process exited after its fifth failed attempt while the clock ran: no
\* timer registered, no tick fired.
C39_Witness ==
    /\ boot.pc = "exited" /\ boot.attempt = Retries
    /\ boot.timers = 0
    /\ clock > Interval
    /\ lastFire[1] = 0

====
